---- MODULE Spec2Model ----
(***************************************************************************)
(* A model of the SSH/SFTP file-system adapter: the Transport (SSHClient)  *)
(* with its upload mutex and lazily initialised SFTP session pool, and the *)
(* streaming write pipeline of a file handle (SSHFSFileHandle): one        *)
(* producer thread calling Write / Flush / Close and one detached uploader *)
(* thread per sealed chunk.                                                *)
(*                                                                         *)
(* Fourteen specifications share the variables:                            *)
(*   Spec      one write handle on a connected Transport; the producer and *)
(*             the uploaders interleave at every access to the handle's    *)
(*             atomics and condition variable; an UploadChunk call, which  *)
(*             runs under upload_mutex, is one step.                       *)
(*   SpecPool  threads calling the session-borrowing operations of one     *)
(*             Transport directly; they interleave at every access to the  *)
(*             pool queue and the mutexes.                                 *)
(*   SpecConn  one thread calling Connect on a Transport that is not yet   *)
(*             connected: the retry loop, Authenticate and the capability  *)
(*             probe, for any retry settings, credentials and server.      *)
(*   SpecOps   threads calling ReadBytes and the path operations of one    *)
(*             connected Transport; reads interleave at the dd_disabled    *)
(*             test, the dd mutex and each libssh2 channel call.           *)
(*   SpecRegistry  callers obtaining Transports from the file system's     *)
(*             registry (GetOrCreateClient), connecting and releasing them.*)
(*   SpecStream  the write handle of Spec whose producer never calls Flush *)
(*             between writes: chunks are sealed by Write and Close only.  *)
(*   SpecClosed  the operations of a Transport that was never connected.   *)
(*   SpecTeardown  uploader threads inside UploadChunk while another       *)
(*             thread calls Disconnect on the same Transport.              *)
(*   SpecRead  one read handle: Read in CHUNK_SIZE pieces and Seek.        *)
(*   SpecMkdir  the parent-directory loops of UploadChunk and of           *)
(*             CreateDirectorySFTP over short absolute and relative paths. *)
(*   SpecLive  Spec with every started thread scheduled fairly.            *)
(*   SpecAnyChunk  SpecLive for any chunk_size the settings can produce,   *)
(*             zero included, with waiters on the condition variable woken.*)
(*   SpecDestroy  Spec followed by the destructor of the handle.           *)
(*   SpecTruncate  SpecStream whose user also calls Truncate.              *)
(***************************************************************************)
EXTENDS Integers, Sequences, FiniteSets, TLC

\* ------------------------------------------------------------------ bounds
MaxBytes == 2      \* bytes handed to Write over the life of one handle
MaxChunk == 2      \* largest configured chunk_size
MaxW == 2          \* largest configured max_concurrent_uploads
NClients == 2      \* threads calling Transport operations directly
MaxSftp == 2       \* SFTP sessions libssh2_sftp_init may hand out
MaxPool == 2       \* pool length beyond which no new operation is started
MaxRetries == 2    \* largest configured max_retries
MaxDelay == 2      \* largest configured initial_retry_delay_ms
MaxCalls == 3      \* read and path operations started on one Transport
NKeys == 2         \* connection keys (user@host:port) in use
MaxClients == 3    \* Transports constructed over the life of the registry
MaxRefs == 2       \* references to one Transport held outside the registry
MaxSize == 3       \* largest size of a file that is read
MaxRead == 3       \* largest nr_bytes passed to Read
CHUNK_SIZE == 2    \* const size_t CHUNK_SIZE = 65536 of Read, scaled down
MaxDepth == 3      \* components of a path, the file name included
MaxNewSize == 1    \* largest new_size passed to Truncate

\* size_t pool_size = 1 (ssh_client.hpp)
pool_size == 1

Parts == 0 .. (MaxBytes - 1)       \* part indices a handle can emit
Threads == 0 .. (NClients - 1)     \* threads calling Transport operations directly

VARIABLES
  \* ---- Transport (SSHClient)
  connected,          \* bool connected
  upload_mutex,       \* std::mutex upload_mutex: set of holders ({} = free)
  g_sftp_read_mutex,  \* static std::mutex g_sftp_read_mutex
  sftp_pool,          \* std::queue<LIBSSH2_SFTP*> sftp_pool
  pool_initialized,   \* bool pool_initialized
  nextSftp,           \* number of sessions libssh2_sftp_init has created
  remote_exists,      \* the destination file exists on the server
  remote,             \* its bytes
  wire,               \* history: part index of each UploadChunk open the handle's
                      \* uploaders sent to the server, in order of arrival
  \* ---- a thread inside a Transport operation
  tpc,                \* position
  top,                \* operation being run
  tdata, tappend,     \* UploadChunk arguments data/size and append
  tsftp,              \* local LIBSSH2_SFTP *sftp (0 = none)
  tborrowed,          \* history: the thread holds a borrowed, not yet returned session
  tret,               \* history: ReturnSFTPSession calls made by the running operation
  twritten,           \* UploadChunk: total_written
  ti,                 \* InitializeSFTPPool: loop index i
  tres,               \* how the operation ends: "none", "ok", "throw"
  \* ---- file handle (SSHFSFileHandle)
  chunk_size, max_concurrent_uploads,
  write_buffer, buffer_dirty, chunk_count, write_buffers,
  uploads_in_progress, chunks_uploaded, bytes_uploaded,
  has_upload_error, first_upload_error, total_bytes_written,
  \* ---- producer thread of the handle
  ppc,                \* position
  pop,                \* the call being run, or the last call when idle
  nr_bytes, bytes_written,   \* Write: argument and loop variable
  fc_buffer,          \* FlushChunk: local shared_ptr<SSHFSWriteBuffer> buffer
  pres,               \* outcome of that call: "none" while it runs, "ok",
                      \* "upload_error", "generic_error"
  perr,               \* the exception the last call raised (0 = none)
  produced,           \* history: bytes appended to write_buffer so far
  err_at_call,        \* history: first_upload_error was set when the last call began
  ret_inflight,       \* history: uploads_in_progress when the last call finished
  \* ---- uploader threads (one per part)
  upc,                \* position of the uploader thread of part p
  ures,               \* how its UploadChunk call ended: "none", "ok", "throw"
  first_failed,       \* history: ErrOf of the first uploader to reach the error CAS
  decs, notifs,       \* history: fetch_sub / notify_all executed by uploader p
  \* ---- Transport: connection parameters (SSHConnectionParams) and environment
  max_retries, initial_retry_delay_ms,
  password, key_path, use_agent,   \* TRUE = configured (non-empty / set)
  ssh_auth_sock,      \* the SSH_AUTH_SOCK environment variable is set
  storagebox,         \* params.hostname contains "storagebox.de"
  \* ---- Transport: Connect and the capability flags
  cpc,                \* position of the thread inside Connect
  attempt, retry_delay_ms,   \* Connect: locals
  cerr,               \* Connect: the IOException being handled (<<>> = none)
  cres,               \* how the last Connect call ended
  supports_commands,  \* bool supports_commands
  dd_disabled,        \* bool dd_disabled
  attempts,           \* history: connect attempts started by the running call
  sleeps,             \* history: the delays it slept, in order
  auth_tried,         \* history: authentication methods it tried, in order
  auth_mark,          \* history: <<attempts, Len(sleeps)>> when authentication failed
  probe,              \* history: outcome of the last DetectCapabilities run
  \* ---- threads calling the read and path operations of a connected Transport
  g_dd_command_mutex, \* static std::mutex g_dd_command_mutex
  opc,                \* position of thread t
  oop,                \* operation it runs
  opath,              \* history: how that operation was carried out
  calls,              \* history: operations started so far
  exec_channels,      \* history: command-exec channels opened since the probe
  dd_late,            \* history: a read opened a channel while dd_disabled was set
  dd_setter,          \* history: threads whose read set dd_disabled
  cmd_ops,            \* history: operations that passed a path to ExecuteCommand
  \* ---- the registry of Transports (SSHFSFileSystem::client_pool)
  client_pool,        \* std::unordered_map: key -> Transport (0 = no entry)
  cl_state,           \* Transport c: "unborn", "live", "destroyed"
  cl_connected,       \* Transport c: bool connected
  refs,               \* shared_ptr references to c held by handles and callers
  goc,                \* history: the last GetOrCreateClient call
  \* ---- Transport: keepalive
  keepalive_interval, \* params.keepalive_interval
  session_keepalive,  \* the session's keepalive configuration (libssh2_keepalive_config)
  \* ---- a handle opened for reading
  file_position,      \* idx_t file_position
  rd_size,            \* size of the remote file
  rpc,                \* position of the thread inside Read
  rd_nr_bytes,        \* Read: argument nr_bytes
  total_read,         \* Read: local total_read
  rd_ret,             \* value the last Read call returned
  rd_res,             \* how it ended: "none" while it runs, "ok", "throw"
  rd_at,              \* history: file_position when the last Read call began
  \* ---- directory creation (UploadChunk, CreateDirectorySFTP)
  dest_absolute,      \* the path passed in starts with '/'
  dest_comps,         \* its components, in order
  remote_path,        \* const std::string &remote_path, as a sequence of characters
  mk_op,              \* the operation that runs
  mk_pc,              \* position of the thread inside it
  dir_path,           \* UploadChunk: dir_path
  mk_pos,             \* UploadChunk: pos; CreateDirectorySFTP: start
  current_path,       \* UploadChunk: current_path; CreateDirectorySFTP: path
  mkdirs,             \* history: the libssh2_sftp_mkdir calls made, with their results
  mk_opened,          \* history: libssh2_sftp_open of the destination was called
  mk_res,             \* how the operation ended: "none", "ok", "throw"
  \* ---- Transport: teardown
  session_freed,      \* CleanupSession has run libssh2_session_free(session)
  \* ---- file handle: destruction
  in_destructor,      \* ~SSHFSFileHandle has been entered
  handle_destroyed,   \* ~SSHFSFileHandle has returned: the members are gone
  \* ---- SSHFSFileSystem::Truncate on the handle
  tr_new_size,        \* Truncate: argument new_size
  tr_pending          \* history: parts dispatched but not yet uploaded when
                      \* libssh2_sftp_fsetstat set the size

transportVars == <<connected, upload_mutex, g_sftp_read_mutex, sftp_pool,
                   pool_initialized, nextSftp, remote_exists, remote, wire>>
threadVars == <<tpc, top, tdata, tappend, tsftp, tborrowed, tret, twritten, ti, tres>>
handleVars == <<chunk_size, max_concurrent_uploads, write_buffer, buffer_dirty,
                chunk_count, write_buffers, uploads_in_progress, chunks_uploaded,
                bytes_uploaded, has_upload_error, first_upload_error,
                total_bytes_written>>
producerVars == <<ppc, pop, nr_bytes, bytes_written, fc_buffer, pres, perr,
                  produced, err_at_call, ret_inflight>>
uploaderVars == <<upc, ures, first_failed, decs, notifs>>
connVars == <<max_retries, initial_retry_delay_ms, password, key_path, use_agent,
              ssh_auth_sock, storagebox, cpc, attempt, retry_delay_ms, cerr, cres,
              attempts, sleeps, auth_tried, auth_mark, probe>>
flagVars == <<supports_commands, dd_disabled>>
opsVars == <<g_dd_command_mutex, opc, oop, opath, calls, exec_channels, dd_late,
             dd_setter, cmd_ops>>
registryVars == <<client_pool, cl_state, cl_connected, refs, goc>>
keepaliveVars == <<keepalive_interval, session_keepalive>>
readVars == <<file_position, rd_size, rpc, rd_nr_bytes, total_read, rd_ret, rd_res,
              rd_at>>
mkdirVars == <<dest_absolute, dest_comps, remote_path, mk_op, mk_pc, dir_path, mk_pos,
               current_path, mkdirs, mk_opened, mk_res>>
teardownVars == <<session_freed>>
lifetimeVars == <<in_destructor, handle_destroyed>>
truncateVars == <<tr_new_size, tr_pending>>
ioVars == <<readVars, mkdirVars, teardownVars, lifetimeVars, truncateVars>>
sessionVars == <<connVars, flagVars, opsVars, registryVars, keepaliveVars, ioVars>>
vars == <<transportVars, threadVars, handleVars, producerVars, uploaderVars,
          sessionVars>>

Min(a, b) == IF a < b THEN a ELSE b

\* The bytes handed to Write are 1, 2, 3, ...: byte i of the stream has value i.
Bytes(from, n) == [i \in 1 .. n |-> from + i]

NoBuffer == [part_no |-> 0, data |-> <<>>]

\* ===================================================== Transport: SFTP pool

\* An exception leaves the operation: locals are abandoned, lock_guards are
\* released by the unwinding (T_Exit).
Throw(t) ==
  /\ tpc' = [tpc EXCEPT ![t] = "exit"]
  /\ tres' = [tres EXCEPT ![t] = "throw"]

\* ReturnSFTPSession: push the caller's session pointer, notify_one.
ReturnSFTPSession(t) ==
  /\ sftp_pool' = Append(sftp_pool, tsftp[t])
  /\ tborrowed' = [tborrowed EXCEPT ![t] = FALSE]
  /\ tret' = [tret EXCEPT ![t] = @ + 1]

\* CleanupSFTPPool: drain the queue, shut every session down, clear the flag.
CleanupSFTPPool ==
  /\ sftp_pool' = <<>>
  /\ pool_initialized' = FALSE

\* BorrowSFTPSession, entry: under pool_mutex test pool_initialized; when the
\* pool is not initialised the lock is dropped and InitializeSFTPPool runs,
\* which returns at once when it finds pool_initialized set (a second read that
\* can only send the caller where a later first read would have sent it).
BorrowSFTPSession(t) ==
  /\ tpc[t] = "borrow"
  /\ tpc' = [tpc EXCEPT ![t] = IF pool_initialized THEN "pool_wait" ELSE "init_loop"]
  /\ ti' = [ti EXCEPT ![t] = 0]
  /\ UNCHANGED <<sessionVars, transportVars, top, tdata, tappend, tsftp, tborrowed, tret,
                 twritten, tres, handleVars, producerVars, uploaderVars>>

\* InitializeSFTPPool, the loop (run without pool_mutex): one iteration creates
\* a session with libssh2_sftp_init and pushes it, or fails, cleans the pool up
\* and throws; after pool_size iterations pool_initialized is set.  On a
\* Transport that is not connected session is nullptr and libssh2_sftp_init
\* can only fail.
InitializeSFTPPool_Loop(t) ==
  /\ tpc[t] = "init_loop"
  /\ \/ /\ ti[t] < pool_size
        /\ connected
        /\ nextSftp < MaxSftp
        /\ Len(sftp_pool) < MaxPool
        /\ nextSftp' = nextSftp + 1
        /\ sftp_pool' = Append(sftp_pool, nextSftp + 1)
        /\ ti' = [ti EXCEPT ![t] = @ + 1]
        /\ UNCHANGED <<pool_initialized, tpc, tres>>
     \/ /\ ti[t] < pool_size
        /\ CleanupSFTPPool
        /\ Throw(t)
        /\ UNCHANGED <<nextSftp, ti>>
     \/ /\ ti[t] >= pool_size
        /\ pool_initialized' = TRUE
        /\ tpc' = [tpc EXCEPT ![t] = "pool_wait"]
        /\ UNCHANGED <<sftp_pool, nextSftp, ti, tres>>
  /\ UNCHANGED <<sessionVars, connected, upload_mutex, g_sftp_read_mutex, remote_exists, remote,
                 wire, top, tdata, tappend, tsftp, tborrowed, tret, twritten,
                 handleVars, producerVars, uploaderVars>>

\* Where an operation continues once it holds a session.
BodyPc(op) ==
  CASE op = "UploadChunk" -> "uc_open"
    [] op = "GetFileStats" -> "gs_stat"
    [] op = "ReadBytesSFTP" -> "rs_lock"
    [] op = "Read" -> "hr_read"
    [] op = "CreateDirectorySFTP" -> "cd_mkdir"
    [] op = "RemoveDirectorySFTP" -> "rd_rmdir"
    [] op = "TruncateFileSFTP" -> "tr_open"

\* BorrowSFTPSession, the wait: pool_cv.wait(lock, !sftp_pool.empty()), then
\* take the front of the queue.
BorrowSFTPSession_Wait(t) ==
  /\ tpc[t] = "pool_wait"
  /\ sftp_pool # <<>>
  /\ tsftp' = [tsftp EXCEPT ![t] = Head(sftp_pool)]
  /\ sftp_pool' = Tail(sftp_pool)
  /\ tborrowed' = [tborrowed EXCEPT ![t] = TRUE]
  /\ tpc' = [tpc EXCEPT ![t] = BodyPc(top[t])]
  /\ UNCHANGED <<sessionVars, connected, upload_mutex, g_sftp_read_mutex, pool_initialized,
                 nextSftp, remote_exists, remote, wire, top, tdata, tappend, tret,
                 twritten, ti, tres, handleVars, producerVars, uploaderVars>>

\* The operation's function returns or unwinds: its lock_guards are released
\* and its arguments and locals are gone; the thread is free for another call.
T_Exit(t) ==
  /\ tpc[t] = "exit"
  /\ tpc' = [tpc EXCEPT ![t] = "idle"]
  /\ upload_mutex' = upload_mutex \ {t}
  /\ g_sftp_read_mutex' = g_sftp_read_mutex \ {t}
  /\ top' = [top EXCEPT ![t] = "none"]
  /\ tdata' = [tdata EXCEPT ![t] = <<>>]
  /\ tappend' = [tappend EXCEPT ![t] = FALSE]
  /\ tsftp' = [tsftp EXCEPT ![t] = 0]
  /\ tret' = [tret EXCEPT ![t] = 0]
  /\ twritten' = [twritten EXCEPT ![t] = 0]
  /\ ti' = [ti EXCEPT ![t] = 0]
  /\ tres' = [tres EXCEPT ![t] = "none"]
  /\ UNCHANGED <<sessionVars, connected, sftp_pool, pool_initialized, nextSftp, remote_exists,
                 remote, wire, tborrowed, handleVars, producerVars, uploaderVars>>

\* ================================================= Transport: UploadChunk

\* UploadChunk, entry: "not connected" check, then lock_guard on upload_mutex,
\* then the call of BorrowSFTPSession.
UploadChunk_Enter(t) ==
  /\ tpc[t] = "uc_entry"
  /\ \/ /\ ~connected
        /\ Throw(t)
        /\ UNCHANGED upload_mutex
     \/ /\ connected
        /\ upload_mutex = {}
        /\ upload_mutex' = {t}
        /\ tpc' = [tpc EXCEPT ![t] = "borrow"]
        /\ UNCHANGED tres
  /\ UNCHANGED <<sessionVars, connected, g_sftp_read_mutex, sftp_pool, pool_initialized, nextSftp,
                 remote_exists, remote, wire, top, tdata, tappend, tsftp, tborrowed,
                 tret, twritten, ti, handleVars, producerVars, uploaderVars>>

\* An open-failure path that throws without ReturnSFTPSession.
UploadChunk_OpenFailed_Leak(t) ==
  /\ Throw(t)
  /\ UNCHANGED <<sessionVars, sftp_pool, tborrowed, tret>>

\* What UploadChunk does when libssh2_sftp_open returns no handle.
UploadChunk_OpenFailed(t) ==
  /\ ReturnSFTPSession(t)
  /\ Throw(t)

\* UploadChunk, libssh2_sftp_open: WRITE|APPEND for append (fails when the
\* file does not exist), WRITE|CREAT|TRUNC otherwise; the server may refuse
\* any open.
UploadChunk_Open(t) ==
  /\ tpc[t] = "uc_open"
  /\ \/ /\ tappend[t] => remote_exists
        /\ remote_exists' = TRUE
        /\ remote' = IF tappend[t] THEN remote ELSE <<>>
        /\ twritten' = [twritten EXCEPT ![t] = 0]
        /\ tpc' = [tpc EXCEPT ![t] = "uc_write"]
        /\ UNCHANGED <<sftp_pool, tborrowed, tret, tres>>
     \/ /\ UploadChunk_OpenFailed(t)
        /\ UNCHANGED <<remote_exists, remote, twritten>>
  /\ UNCHANGED <<sessionVars, connected, upload_mutex, g_sftp_read_mutex, pool_initialized,
                 nextSftp, wire, top, tdata, tappend, tsftp, ti, handleVars,
                 producerVars, uploaderVars>>

\* UploadChunk, the write loop and the tail of the function: one iteration of
\* libssh2_sftp_write puts 1..remaining bytes at the end of the file, or
\* returns < 0 (error) or 0 (stall), both of which close the file, return the
\* session and throw; when all bytes are written the file is closed and the
\* session returned.
UploadChunk_Write(t) ==
  /\ tpc[t] = "uc_write"
  /\ \/ /\ twritten[t] < Len(tdata[t])
        /\ \E written \in 1 .. (Len(tdata[t]) - twritten[t]) :
             /\ remote' = remote \o SubSeq(tdata[t], twritten[t] + 1,
                                           twritten[t] + written)
             /\ twritten' = [twritten EXCEPT ![t] = @ + written]
        /\ UNCHANGED <<sftp_pool, tborrowed, tret, tpc, tres>>
     \/ /\ twritten[t] < Len(tdata[t])
        /\ ReturnSFTPSession(t)
        /\ Throw(t)
        /\ UNCHANGED <<remote, twritten>>
     \/ /\ twritten[t] >= Len(tdata[t])
        /\ ReturnSFTPSession(t)
        /\ tpc' = [tpc EXCEPT ![t] = "exit"]
        /\ tres' = [tres EXCEPT ![t] = "ok"]
        /\ UNCHANGED <<remote, twritten>>
  /\ UNCHANGED <<sessionVars, connected, upload_mutex, g_sftp_read_mutex, pool_initialized,
                 nextSftp, remote_exists, wire, top, tdata, tappend, tsftp, ti,
                 handleVars, producerVars, uploaderVars>>

\* ============================================== Transport: other operations

\* "catch (...) { ReturnSFTPSession(sftp); throw; }" of ReadBytesSFTP,
\* CreateDirectorySFTP, RemoveDirectorySFTP and TruncateFileSFTP.
Catch_Return(t) ==
  /\ tpc[t] = "catch"
  /\ ReturnSFTPSession(t)
  /\ Throw(t)
  /\ UNCHANGED <<sessionVars, connected, upload_mutex, g_sftp_read_mutex, pool_initialized,
                 nextSftp, remote_exists, remote, wire, top, tdata, tappend, tsftp,
                 twritten, ti, handleVars, producerVars, uploaderVars>>

\* The operation returns normally after ReturnSFTPSession.
ReturnAndFinish(t) ==
  /\ ReturnSFTPSession(t)
  /\ tpc' = [tpc EXCEPT ![t] = "exit"]
  /\ tres' = [tres EXCEPT ![t] = "ok"]

\* ReturnSFTPSession inside the try block followed by a throw: the handler of
\* the same function runs next.
ReturnAndThrowInTry(t) ==
  /\ ReturnSFTPSession(t)
  /\ tpc' = [tpc EXCEPT ![t] = "catch"]
  /\ UNCHANGED tres

\* GetFileStats, entry: the "not connected" check, then BorrowSFTPSession.
GetFileStats_Enter(t) ==
  /\ tpc[t] = "gs_entry"
  /\ IF connected
       THEN /\ tpc' = [tpc EXCEPT ![t] = "borrow"]
            /\ UNCHANGED tres
       ELSE Throw(t)
  /\ UNCHANGED <<sessionVars, transportVars, top, tdata, tappend, tsftp, tborrowed, tret,
                 twritten, ti, handleVars, producerVars, uploaderVars>>

\* GetFileStats, libssh2_sftp_stat: rc != 0 returns the session and throws,
\* rc == 0 returns the session and the attributes.
GetFileStats_Stat(t) ==
  /\ tpc[t] = "gs_stat"
  /\ \/ /\ ReturnSFTPSession(t)
        /\ Throw(t)
     \/ ReturnAndFinish(t)
  /\ UNCHANGED <<sessionVars, connected, upload_mutex, g_sftp_read_mutex, pool_initialized,
                 nextSftp, remote_exists, remote, wire, top, tdata, tappend, tsftp,
                 twritten, ti, handleVars, producerVars, uploaderVars>>

\* ReadBytesSFTP: with the session already borrowed, lock_guard on upload_mutex.
ReadBytesSFTP_Lock(t) ==
  /\ tpc[t] = "rs_lock"
  /\ upload_mutex = {}
  /\ upload_mutex' = {t}
  /\ tpc' = [tpc EXCEPT ![t] = "rs_read"]
  /\ UNCHANGED <<sessionVars, connected, g_sftp_read_mutex, sftp_pool, pool_initialized, nextSftp,
                 remote_exists, remote, wire, top, tdata, tappend, tsftp, tborrowed,
                 tret, twritten, ti, tres, handleVars, producerVars, uploaderVars>>

\* ReadBytesSFTP, the try block: a failed open or read throws into the handler;
\* otherwise close, ReturnSFTPSession and return total_read.
ReadBytesSFTP_Read(t) ==
  /\ tpc[t] = "rs_read"
  /\ \/ /\ tpc' = [tpc EXCEPT ![t] = "catch"]
        /\ UNCHANGED <<sftp_pool, tborrowed, tret, tres>>
     \/ ReturnAndFinish(t)
  /\ UNCHANGED <<sessionVars, connected, upload_mutex, g_sftp_read_mutex, pool_initialized,
                 nextSftp, remote_exists, remote, wire, top, tdata, tappend, tsftp,
                 twritten, ti, handleVars, producerVars, uploaderVars>>

\* SSHFSFileHandle::Read, entry: lock_guard on the static g_sftp_read_mutex,
\* reconnect when the client is not connected, then BorrowSFTPSession.
Read_Enter(t) ==
  /\ tpc[t] = "hr_entry"
  /\ g_sftp_read_mutex = {}
  /\ g_sftp_read_mutex' = {t}
  /\ \/ /\ connected
        /\ tpc' = [tpc EXCEPT ![t] = "borrow"]
        /\ UNCHANGED <<connected, tres>>
     \/ /\ ~connected
        /\ \/ /\ connected' = TRUE
              /\ tpc' = [tpc EXCEPT ![t] = "borrow"]
              /\ UNCHANGED tres
           \/ /\ Throw(t)
              /\ UNCHANGED connected
  /\ UNCHANGED <<sessionVars, upload_mutex, sftp_pool, pool_initialized, nextSftp, remote_exists,
                 remote, wire, top, tdata, tappend, tsftp, tborrowed, tret, twritten,
                 ti, handleVars, producerVars, uploaderVars>>

\* SSHFSFileHandle::Read, open and read loop: a failed open returns the session
\* and throws, a read error closes, returns the session and throws, otherwise
\* close and ReturnSFTPSession.
Read_Read(t) ==
  /\ tpc[t] = "hr_read"
  /\ \/ /\ ReturnSFTPSession(t)
        /\ Throw(t)
     \/ ReturnAndFinish(t)
  /\ UNCHANGED <<sessionVars, connected, upload_mutex, g_sftp_read_mutex, pool_initialized,
                 nextSftp, remote_exists, remote, wire, top, tdata, tappend, tsftp,
                 twritten, ti, handleVars, producerVars, uploaderVars>>

\* CreateDirectorySFTP, the mkdir loop: a mkdir failing with anything but
\* FILE_ALREADY_EXISTS returns the session and throws inside the try block;
\* otherwise ReturnSFTPSession after the loop.
CreateDirectorySFTP_Mkdir(t) ==
  /\ tpc[t] = "cd_mkdir"
  /\ \/ ReturnAndThrowInTry(t)
     \/ ReturnAndFinish(t)
  /\ UNCHANGED <<sessionVars, connected, upload_mutex, g_sftp_read_mutex, pool_initialized,
                 nextSftp, remote_exists, remote, wire, top, tdata, tappend, tsftp,
                 twritten, ti, handleVars, producerVars, uploaderVars>>

\* RemoveDirectorySFTP: libssh2_sftp_rmdir, ReturnSFTPSession, then throw
\* inside the try block when rc != 0.
RemoveDirectorySFTP_Rmdir(t) ==
  /\ tpc[t] = "rd_rmdir"
  /\ \/ ReturnAndThrowInTry(t)
     \/ ReturnAndFinish(t)
  /\ UNCHANGED <<sessionVars, connected, upload_mutex, g_sftp_read_mutex, pool_initialized,
                 nextSftp, remote_exists, remote, wire, top, tdata, tappend, tsftp,
                 twritten, ti, handleVars, producerVars, uploaderVars>>

\* TruncateFileSFTP(path, new_size): open with LIBSSH2_FXF_WRITE (no CREAT);
\* a failed open returns the session and throws inside the try block; otherwise
\* fsetstat, close, ReturnSFTPSession, and throw inside the try block when
\* fsetstat failed.
TruncateFileSFTP_Open(t) ==
  /\ tpc[t] = "tr_open"
  /\ \/ /\ ReturnAndThrowInTry(t)
        /\ UNCHANGED remote
     \/ /\ remote_exists
        /\ \E new_size \in 0 .. Len(remote) :
             remote' = SubSeq(remote, 1, new_size)
        /\ ReturnAndFinish(t)
  /\ UNCHANGED <<sessionVars, connected, upload_mutex, g_sftp_read_mutex, pool_initialized,
                 nextSftp, remote_exists, wire, top, tdata, tappend, tsftp,
                 twritten, ti, handleVars, producerVars, uploaderVars>>

\* The operations of the Transport that borrow a session.
BorrowingOps == {"UploadChunk", "GetFileStats", "ReadBytesSFTP", "Read",
                 "CreateDirectorySFTP", "RemoveDirectorySFTP", "TruncateFileSFTP"}

\* Where an operation starts.
EntryPc(op) ==
  CASE op = "UploadChunk" -> "uc_entry"
    [] op = "GetFileStats" -> "gs_entry"
    [] op = "Read" -> "hr_entry"
    [] OTHER -> "borrow"

\* A thread calls an operation of the Transport; UploadChunk gets a chunk of
\* one byte and its append flag.
T_Call(t, op, append) ==
  /\ tpc[t] = "idle"
  /\ Len(sftp_pool) < MaxPool
  /\ op = "UploadChunk" => (append => Len(remote) < MaxBytes)
  /\ op # "UploadChunk" => ~append
  /\ top' = [top EXCEPT ![t] = op]
  /\ tpc' = [tpc EXCEPT ![t] = EntryPc(op)]
  /\ tdata' = [tdata EXCEPT ![t] = IF op = "UploadChunk" THEN Bytes(0, 1) ELSE <<>>]
  /\ tappend' = [tappend EXCEPT ![t] = append]
  /\ UNCHANGED <<sessionVars, transportVars, tsftp, tborrowed, tret, twritten, ti, tres,
                 handleVars, producerVars, uploaderVars>>

\* ================================================ file handle: the producer

\* The exception of the uploader of part p, as held by an exception_ptr
\* (0 is the empty exception_ptr).
ErrOf(p) == p + 1

\* The SSHFSWriteBuffer of part p: buffers are pushed on write_buffers in
\* part order and never removed.
BufferOf(p) == write_buffers[p + 1]

\* CheckUploadErrors: "ok" when has_upload_error is clear; otherwise rethrow
\* first_upload_error, or throw the generic IOException when the slot is empty.
CheckUploadErrors ==
  IF has_upload_error
    THEN IF first_upload_error # 0 THEN "upload_error" ELSE "generic_error"
    ELSE "ok"

\* The running call of the producer ends with outcome kind.
Finish(op, kind) ==
  /\ ppc' = "idle"
  /\ pres' = kind
  /\ perr' = IF kind = "upload_error" THEN first_upload_error ELSE 0
  /\ ret_inflight' = uploads_in_progress

\* Where the caller of FlushChunk() continues when it returns.
AfterFlush(op) ==
  IF op = "write" THEN "w_loop" ELSE IF op = "truncate" THEN "tr_sftp" ELSE "c_check"

FlushReturns(op) ==
  IF op = "flush"
    THEN Finish(op, "ok")
    ELSE /\ ppc' = AfterFlush(op)
         /\ UNCHANGED <<pres, perr, ret_inflight>>

\* A call of the producer starts and continues at pc: no outcome yet.
Begin(pc) ==
  /\ ppc' = pc
  /\ pres' = "none"
  /\ perr' = 0
  /\ ret_inflight' = 0

\* The handle is used by one thread, which closes it last.
CanCall ==
  /\ ppc = "idle"
  /\ pop # "close"

\* Write(buffer, nr_bytes): nr_bytes <= 0 returns 0 at once, otherwise the
\* copy loop starts.
Write(n) ==
  /\ CanCall
  /\ produced + n <= MaxBytes
  /\ pop' = "write"
  /\ err_at_call' = (first_upload_error # 0)
  /\ nr_bytes' = n
  /\ bytes_written' = 0
  /\ IF n <= 0
       THEN Finish("write", "ok")
       ELSE Begin("w_loop")
  /\ UNCHANGED <<sessionVars, transportVars, threadVars, handleVars, fc_buffer, produced,
                 uploaderVars>>

\* size_t to_write = std::min(space_left, nr_bytes - bytes_written);
ToWrite_All(space_left, remaining) == remaining

ToWrite(space_left, remaining) == Min(space_left, remaining)

\* Write, one iteration of the copy loop: append min(space_left, remaining)
\* bytes, set buffer_dirty, and call FlushChunk when the buffer is full; after
\* the loop add nr_bytes to total_bytes_written and return nr_bytes.
Write_Loop ==
  /\ ppc = "w_loop"
  /\ IF bytes_written < nr_bytes
       THEN LET space_left == chunk_size - Len(write_buffer)
                to_write == ToWrite(space_left, nr_bytes - bytes_written)
                filled == write_buffer \o Bytes(produced, to_write)
            IN /\ write_buffer' = filled
               /\ buffer_dirty' = TRUE
               /\ bytes_written' = bytes_written + to_write
               /\ produced' = produced + to_write
               /\ ppc' = IF Len(filled) >= chunk_size THEN "fc_entry" ELSE "w_loop"
               /\ UNCHANGED <<total_bytes_written, pres, perr, ret_inflight>>
       ELSE /\ total_bytes_written' = total_bytes_written + nr_bytes
            /\ Finish("write", "ok")
            /\ UNCHANGED <<write_buffer, buffer_dirty, bytes_written, produced>>
  /\ UNCHANGED <<sessionVars, transportVars, threadVars, chunk_size, max_concurrent_uploads,
                 chunk_count, write_buffers, uploads_in_progress, chunks_uploaded,
                 bytes_uploaded, has_upload_error, first_upload_error, pop,
                 nr_bytes, fc_buffer, err_at_call, uploaderVars>>

\* Flush(): FlushChunk when the buffer is non-empty and dirty.
Flush ==
  /\ CanCall
  /\ pop' = "flush"
  /\ err_at_call' = (first_upload_error # 0)
  /\ IF write_buffer # <<>> /\ buffer_dirty
       THEN Begin("fc_entry")
       ELSE Finish("flush", "ok")
  /\ UNCHANGED <<sessionVars, transportVars, threadVars, handleVars, nr_bytes, bytes_written,
                 fc_buffer, produced, uploaderVars>>

\* Close(), up to the wait: when the buffer is non-empty or dirty it calls
\* Flush(), which calls FlushChunk when the buffer is non-empty and dirty.
Close ==
  /\ CanCall
  /\ pop' = "close"
  /\ err_at_call' = (first_upload_error # 0)
  /\ Begin(IF (write_buffer # <<>> \/ buffer_dirty)
              /\ (write_buffer # <<>> /\ buffer_dirty)
             THEN "fc_entry"
             ELSE "c_check")
  /\ UNCHANGED <<sessionVars, transportVars, threadVars, handleVars, nr_bytes, bytes_written,
                 fc_buffer, produced, uploaderVars>>

\* FlushChunk, up to the wait: return on an empty buffer, CheckUploadErrors,
\* then move write_buffer into a new SSHFSWriteBuffer with part_no = chunk_count.
FlushChunk_Seal ==
  /\ ppc = "fc_entry"
  /\ IF write_buffer = <<>>
       THEN /\ FlushReturns(pop)
            /\ UNCHANGED <<write_buffer, fc_buffer>>
       ELSE IF CheckUploadErrors # "ok"
         THEN /\ Finish(pop, CheckUploadErrors)
              /\ UNCHANGED <<write_buffer, fc_buffer>>
         ELSE /\ fc_buffer' = [part_no |-> chunk_count, data |-> write_buffer]
              /\ write_buffer' = <<>>
              /\ ppc' = "fc_pred"
              /\ UNCHANGED <<pres, perr, ret_inflight>>
  /\ UNCHANGED <<sessionVars, transportVars, threadVars, chunk_size, max_concurrent_uploads,
                 buffer_dirty, chunk_count, write_buffers, uploads_in_progress,
                 chunks_uploaded, bytes_uploaded, has_upload_error,
                 first_upload_error, total_bytes_written, pop, nr_bytes,
                 bytes_written, produced, err_at_call, uploaderVars>>

\* A wait in FlushChunk that lets the producer through at capacity.
FlushChunk_WaitPred_AtCapacity ==
  uploads_in_progress <= max_concurrent_uploads \/ has_upload_error

\* The predicate of the wait in FlushChunk.
FlushChunk_WaitPred ==
  uploads_in_progress < max_concurrent_uploads \/ has_upload_error

\* Close without its wait: the predicate replaced by one that always passes.
Close_WaitPred_NoWait == TRUE

\* The predicate of the wait in Close.
Close_WaitPred == uploads_in_progress = 0

\* upload_complete_cv.wait(lock, pred) in FlushChunk: evaluate the predicate
\* under buffers_lock; when it is false the thread goes on to block.
FlushChunk_Wait ==
  /\ ppc = "fc_pred"
  /\ ppc' = IF FlushChunk_WaitPred THEN "fc_check" ELSE "fc_prewait"
  /\ UNCHANGED <<sessionVars, transportVars, threadVars, handleVars, pop, nr_bytes, bytes_written,
                 fc_buffer, pres, perr, produced, err_at_call,
                 ret_inflight, uploaderVars>>

\* The waiter releases buffers_lock and blocks on the condition variable.
Cv_Block ==
  /\ ppc \in {"fc_prewait", "c_prewait"}
  /\ ppc' = IF ppc = "fc_prewait" THEN "fc_blocked" ELSE "c_blocked"
  /\ UNCHANGED <<sessionVars, transportVars, threadVars, handleVars, pop, nr_bytes, bytes_written,
                 fc_buffer, pres, perr, produced, err_at_call,
                 ret_inflight, uploaderVars>>

\* Where a blocked waiter resumes when woken: it re-evaluates its predicate.
Woken(pc) ==
  IF pc = "fc_blocked" THEN "fc_pred" ELSE IF pc = "c_blocked" THEN "c_pred" ELSE pc

\* A condition variable may wake a waiter spuriously.
Cv_SpuriousWake ==
  /\ ppc \in {"fc_blocked", "c_blocked"}
  /\ ppc' = Woken(ppc)
  /\ UNCHANGED <<sessionVars, transportVars, threadVars, handleVars, pop, nr_bytes, bytes_written,
                 fc_buffer, pres, perr, produced, err_at_call,
                 ret_inflight, uploaderVars>>

\* FlushChunk, after the wait: CheckUploadErrors again; then push the buffer on
\* write_buffers, uploads_in_progress.fetch_add(1), UploadChunkAsync (which
\* starts the detached uploader thread of the part), clear the buffer and the
\* dirty flag, chunk_count++.
FlushChunk_Dispatch ==
  /\ ppc = "fc_check"
  /\ IF CheckUploadErrors # "ok"
       THEN /\ Finish(pop, CheckUploadErrors)
            /\ UNCHANGED <<write_buffers, uploads_in_progress, write_buffer,
                           buffer_dirty, chunk_count, upc>>
       ELSE /\ write_buffers' = Append(write_buffers, fc_buffer)
            /\ uploads_in_progress' = uploads_in_progress + 1
            /\ upc' = [upc EXCEPT ![fc_buffer.part_no] = "start"]
            /\ write_buffer' = <<>>
            /\ buffer_dirty' = FALSE
            /\ chunk_count' = chunk_count + 1
            /\ FlushReturns(pop)
  /\ fc_buffer' = NoBuffer
  /\ UNCHANGED <<sessionVars, transportVars, threadVars, chunk_size, max_concurrent_uploads,
                 chunks_uploaded, bytes_uploaded, has_upload_error,
                 first_upload_error, total_bytes_written, pop, nr_bytes,
                 bytes_written, produced, err_at_call, ures, first_failed, decs,
                 notifs>>

\* Close(): "if (chunk_count > 0)" decides whether there is anything to wait for.
Close_Check ==
  /\ ppc = "c_check"
  /\ IF chunk_count > 0
       THEN /\ ppc' = "c_pred"
            /\ UNCHANGED <<pres, perr, ret_inflight>>
       ELSE Finish("close", "ok")
  /\ UNCHANGED <<sessionVars, transportVars, threadVars, handleVars, pop, nr_bytes, bytes_written,
                 fc_buffer, produced, err_at_call, uploaderVars>>

\* Close(): upload_complete_cv.wait(lock, uploads_in_progress == 0).
Close_Wait ==
  /\ ppc = "c_pred"
  /\ ppc' = IF Close_WaitPred THEN "c_errcheck" ELSE "c_prewait"
  /\ UNCHANGED <<sessionVars, transportVars, threadVars, handleVars, pop, nr_bytes, bytes_written,
                 fc_buffer, pres, perr, produced, err_at_call,
                 ret_inflight, uploaderVars>>

\* Close(): CheckUploadErrors after the wait, then return.
Close_CheckErrors ==
  /\ ppc = "c_errcheck"
  /\ Finish("close", CheckUploadErrors)
  /\ UNCHANGED <<sessionVars, transportVars, threadVars, handleVars, pop, nr_bytes, bytes_written,
                 fc_buffer, produced, err_at_call, uploaderVars>>

\* ============================================ file handle: uploader threads
\* The uploaders of a handle are the only callers of the Transport here, and
\* the whole body of UploadChunk runs under the lock_guard on upload_mutex, so
\* no step of another uploader falls between its steps: the call is taken as
\* one step, at the moment the uploader acquires the mutex.

\* The sessions InitializeSFTPPool pushes when it succeeds.
NewSessions(n) == [i \in 1 .. pool_size |-> n + i]

\* The bytes of the file once an open with the given append flag succeeded.
Opened(append) == IF append THEN remote ELSE <<>>

\* bool is_first_chunk = (buffer->part_no == 0);
IsFirstChunk_Always(part_no) == TRUE

IsFirstChunk(part_no) == part_no = 0

\* The uploader thread calls UploadChunk(path, data, size, append =
\* part_no != 0): the "not connected" check, the lock_guard on upload_mutex
\* (taken when free, released at the end of the step), BorrowSFTPSession
\* (InitializeSFTPPool on first use, which may fail and throw),
\* libssh2_sftp_open (WRITE|APPEND fails when the file does not exist, any
\* open may be refused), the write loop (which may fail or stall after
\* k < size bytes) and ReturnSFTPSession on every path after the borrow.
Uploader_UploadChunk(p) ==
  /\ upc[p] = "start"
  /\ LET data == BufferOf(p).data
         append == ~IsFirstChunk(BufferOf(p).part_no)
         pool == IF pool_initialized THEN sftp_pool
                 ELSE sftp_pool \o NewSessions(nextSftp)
     IN \/ /\ ~connected
           /\ ures' = [ures EXCEPT ![p] = "throw"]
           /\ UNCHANGED <<sftp_pool, pool_initialized, nextSftp, remote_exists,
                          remote, wire>>
        \/ /\ connected
           /\ upload_mutex = {}
           /\ ~pool_initialized
           /\ CleanupSFTPPool
           /\ ures' = [ures EXCEPT ![p] = "throw"]
           /\ UNCHANGED <<nextSftp, remote_exists, remote, wire>>
        \/ /\ connected
           /\ upload_mutex = {}
           /\ pool # <<>>
           /\ sftp_pool' = Append(Tail(pool), Head(pool))
           /\ nextSftp' = IF pool_initialized THEN nextSftp ELSE nextSftp + pool_size
           /\ pool_initialized' = TRUE
           /\ wire' = Append(wire, p)
           /\ \/ /\ ures' = [ures EXCEPT ![p] = "throw"]
                 /\ UNCHANGED <<remote_exists, remote>>
              \/ /\ append => remote_exists
                 /\ remote_exists' = TRUE
                 /\ \E k \in 0 .. Len(data) :
                      /\ remote' = Opened(append) \o SubSeq(data, 1, k)
                      /\ ures' = [ures EXCEPT ![p] = IF k = Len(data) THEN "ok"
                                                     ELSE "throw"]
  /\ upc' = [upc EXCEPT ![p] = "returned"]
  /\ UNCHANGED <<sessionVars, connected, upload_mutex, g_sftp_read_mutex, threadVars, handleVars,
                 producerVars, first_failed, decs, notifs>>

\* bytes_uploaded.fetch_add(buffer->data.size());
UploadedSize_One(buffer) == 1

UploadedSize(buffer) == Len(buffer.data)

\* idx_t GetProgress(): bytes_uploaded.load() + write_buffer.size()
GetProgress == bytes_uploaded + Len(write_buffer)

\* The uploader after UploadChunk returned normally: buffer->uploaded,
\* chunks_uploaded.fetch_add(1), bytes_uploaded.fetch_add(size).
Uploader_Success(p) ==
  /\ upc[p] = "returned"
  /\ ures[p] = "ok"
  /\ chunks_uploaded' = chunks_uploaded + 1
  /\ bytes_uploaded' = bytes_uploaded + UploadedSize(BufferOf(p))
  /\ upc' = [upc EXCEPT ![p] = "dec"]
  /\ UNCHANGED <<sessionVars, transportVars, threadVars, chunk_size, max_concurrent_uploads,
                 write_buffer, buffer_dirty, chunk_count, write_buffers,
                 uploads_in_progress, has_upload_error, first_upload_error,
                 total_bytes_written, producerVars, ures, first_failed, decs,
                 notifs>>

\* An error capture in which every failing uploader writes the slot.
CasWins_Always == TRUE

\* has_upload_error.compare_exchange_strong(expected = false, true): TRUE iff
\* this caller changed the flag.
CasWins == ~has_upload_error

\* The uploader, catch (...): the CAS on has_upload_error; the winner goes on
\* to write first_upload_error.
Uploader_Catch(p) ==
  /\ upc[p] = "returned"
  /\ ures[p] = "throw"
  /\ first_failed' = IF first_failed = 0 THEN ErrOf(p) ELSE first_failed
  /\ has_upload_error' = TRUE
  /\ upc' = [upc EXCEPT ![p] = IF CasWins THEN "set_slot" ELSE "dec"]
  /\ UNCHANGED <<sessionVars, transportVars, threadVars, chunk_size, max_concurrent_uploads,
                 write_buffer, buffer_dirty, chunk_count, write_buffers,
                 uploads_in_progress, chunks_uploaded, bytes_uploaded,
                 first_upload_error, total_bytes_written, producerVars, ures,
                 decs, notifs>>

\* first_upload_error = std::current_exception() by the CAS winner.
Uploader_SetFirstError(p) ==
  /\ upc[p] = "set_slot"
  /\ first_upload_error' = ErrOf(p)
  /\ upc' = [upc EXCEPT ![p] = "dec"]
  /\ UNCHANGED <<sessionVars, transportVars, threadVars, chunk_size, max_concurrent_uploads,
                 write_buffer, buffer_dirty, chunk_count, write_buffers,
                 uploads_in_progress, chunks_uploaded, bytes_uploaded,
                 has_upload_error, total_bytes_written, producerVars, ures,
                 first_failed, decs, notifs>>

\* uploads_in_progress.fetch_sub(1).
Uploader_Decrement(p) ==
  /\ upc[p] = "dec"
  /\ uploads_in_progress' = uploads_in_progress - 1
  /\ decs' = [decs EXCEPT ![p] = @ + 1]
  /\ upc' = [upc EXCEPT ![p] = "notify"]
  /\ UNCHANGED <<sessionVars, transportVars, threadVars, chunk_size, max_concurrent_uploads,
                 write_buffer, buffer_dirty, chunk_count, write_buffers,
                 chunks_uploaded, bytes_uploaded, has_upload_error,
                 first_upload_error, total_bytes_written, producerVars, ures,
                 first_failed, notifs>>

\* upload_complete_cv.notify_all(): a blocked waiter is woken; the thread ends.
Uploader_Notify(p) ==
  /\ upc[p] = "notify"
  /\ ppc' = Woken(ppc)
  /\ notifs' = [notifs EXCEPT ![p] = @ + 1]
  /\ upc' = [upc EXCEPT ![p] = "done"]
  /\ UNCHANGED <<sessionVars, transportVars, threadVars, handleVars, pop, nr_bytes, bytes_written,
                 fc_buffer, pres, perr, produced, err_at_call,
                 ret_inflight, ures, first_failed, decs>>

\* ======================================================= Transport: Connect

\* An IOException message is modelled by its leading words.
MsgResolve == <<"Failed", "to", "resolve", "hostname">>
MsgSocket == <<"Failed", "to", "create", "socket">>
MsgConnect == <<"Failed", "to", "connect", "to">>
MsgSession == <<"Failed", "to", "create", "SSH", "session">>
MsgBanner == <<"SSH", "server", "did", "not", "send", "banner">>
MsgHandshake == <<"SSH", "handshake", "failed", "for">>
MsgAuth == <<"SSH", "authentication", "failed", "for">>

\* std::string::find(needle) != npos
Contains(msg, needle) ==
  \E i \in 1 .. (Len(msg) - Len(needle) + 1) :
    SubSeq(msg, i, i + Len(needle) - 1) = needle

IsAuthError_Never(msg) == FALSE

\* Connect's test for an authentication error in the catch block.
IsAuthError(msg) == Contains(msg, <<"authentication", "failed">>)

Authenticate_FallThrough(acc) ==
  LET p == IF password THEN <<"password">> ELSE <<>>
      k == IF key_path /\ ~(password /\ acc.password) THEN <<"key">> ELSE <<>>
      okpk == (password /\ acc.password) \/ (key_path /\ acc.key)
      a == IF ssh_auth_sock /\ ~okpk THEN <<"agent">> ELSE <<>>
  IN  [tried |-> p \o k \o a, ok |-> okpk \/ (ssh_auth_sock /\ acc.agent)]

\* Authenticate: which methods are tried and whether the call returns, given
\* what the server and the agent would accept.
Authenticate(acc) ==
  IF password THEN [tried |-> <<"password">>, ok |-> acc.password]
  ELSE IF key_path THEN [tried |-> <<"key">>, ok |-> acc.key]
  ELSE IF use_agent
       THEN IF ~ssh_auth_sock THEN [tried |-> <<>>, ok |-> FALSE]
            ELSE [tried |-> <<"agent">>, ok |-> acc.agent]
  ELSE IF ssh_auth_sock THEN [tried |-> <<"agent">>, ok |-> acc.agent]
  ELSE [tried |-> <<>>, ok |-> FALSE]

DetectCapabilities_IgnoreExit(open, exec, exit_status) == open /\ exec

\* DetectCapabilities: the value it leaves in supports_commands.
DetectCapabilities(open, exec, exit_status) ==
  IF ~open THEN FALSE
  ELSE IF ~exec THEN FALSE
  ELSE IF exit_status # 0 THEN FALSE
  ELSE TRUE

NoProbe == [open |-> FALSE, exec |-> FALSE, exit_status |-> 0, ran |-> FALSE]

\* Connect, up to the loop.
Connect_Call ==
  /\ cpc \in {"idle", "done"}
  /\ dd_disabled' = (dd_disabled \/ storagebox)
  /\ IF connected
     THEN /\ cpc' = "done"
          /\ cres' = "already"
          /\ UNCHANGED <<attempt, retry_delay_ms, cerr, attempts, sleeps,
                         auth_tried, auth_mark>>
     ELSE /\ retry_delay_ms' = initial_retry_delay_ms
          /\ attempt' = 0
          /\ cpc' = "while"
          /\ cres' = "none"
          /\ cerr' = <<>>
          /\ attempts' = 0
          /\ sleeps' = <<>>
          /\ auth_tried' = <<>>
          /\ auth_mark' = <<>>
  /\ UNCHANGED <<transportVars, threadVars, handleVars, producerVars, uploaderVars,
                 max_retries, initial_retry_delay_ms, password, key_path, use_agent,
                 ssh_auth_sock, storagebox, supports_commands, probe, opsVars,
                 registryVars,
                 keepaliveVars, ioVars>>

\* while (attempt <= params.max_retries), and the sleep that opens the try block.
Connect_While ==
  /\ cpc = "while"
  /\ IF attempt <= max_retries
     THEN /\ sleeps' = IF attempt > 0 THEN Append(sleeps, retry_delay_ms) ELSE sleeps
          /\ attempts' = attempts + 1
          /\ cpc' = "socket"
          /\ UNCHANGED cres
     ELSE /\ cpc' = "done"
          /\ cres' = "fell_through"
          /\ UNCHANGED <<sleeps, attempts>>
  /\ UNCHANGED <<transportVars, threadVars, handleVars, producerVars, uploaderVars,
                 max_retries, initial_retry_delay_ms, password, key_path, use_agent,
                 ssh_auth_sock, storagebox, attempt, retry_delay_ms, cerr,
                 auth_tried, auth_mark, probe, flagVars, opsVars, registryVars,
                 keepaliveVars, ioVars>>

\* getaddrinfo, socket, connect.
Connect_Socket ==
  /\ cpc = "socket"
  /\ \/ /\ cpc' = "session"
        /\ UNCHANGED cerr
     \/ \E msg \in {MsgResolve, MsgSocket, MsgConnect} :
          /\ cerr' = msg
          /\ cpc' = "catch"
  /\ UNCHANGED <<transportVars, threadVars, handleVars, producerVars, uploaderVars,
                 max_retries, initial_retry_delay_ms, password, key_path, use_agent,
                 ssh_auth_sock, storagebox, attempt, retry_delay_ms, cres, attempts,
                 sleeps, auth_tried, auth_mark, probe, flagVars, opsVars,
                 registryVars,
                 keepaliveVars, ioVars>>

\* A session libssh2_session_init has just created sends no keepalives.
NoKeepalive == [want_reply |-> FALSE, interval |-> 0]

\* libssh2_keepalive_config(session, want_reply, interval)
libssh2_keepalive_config(want_reply, interval) ==
  [want_reply |-> want_reply, interval |-> interval]

\* The two keepalive calls of InitializeSession, in program order: the first
\* before the handshake, the second after the handshake has succeeded.
KeepaliveBeforeHandshake(interval) ==
  IF interval > 0 THEN libssh2_keepalive_config(FALSE, interval) ELSE NoKeepalive

KeepaliveAfterHandshake(before) == libssh2_keepalive_config(TRUE, 60)

InitializeSession ==
  /\ cpc = "session"
  /\ \/ /\ cpc' = "auth"
        /\ session_keepalive' = KeepaliveAfterHandshake(KeepaliveBeforeHandshake(keepalive_interval))
        /\ UNCHANGED cerr
     \/ /\ cerr' = MsgSession
        /\ cpc' = "catch"
        /\ session_keepalive' = NoKeepalive
     \/ \E msg \in {MsgBanner, MsgHandshake} :
          /\ cerr' = msg
          /\ cpc' = "catch"
          /\ session_keepalive' = KeepaliveBeforeHandshake(keepalive_interval)
  /\ UNCHANGED <<transportVars, threadVars, handleVars, producerVars, uploaderVars,
                 max_retries, initial_retry_delay_ms, password, key_path, use_agent,
                 ssh_auth_sock, storagebox, attempt, retry_delay_ms, cres, attempts,
                 sleeps, auth_tried, auth_mark, probe, flagVars, opsVars,
                 registryVars, keepalive_interval, ioVars>>

Connect_Authenticate ==
  /\ cpc = "auth"
  /\ \E acc \in [password : BOOLEAN, key : BOOLEAN, agent : BOOLEAN] :
       LET r == Authenticate(acc)
       IN  /\ auth_tried' = auth_tried \o r.tried
           /\ IF r.ok
              THEN /\ cpc' = "probe"
                   /\ UNCHANGED <<cerr, auth_mark>>
              ELSE /\ cerr' = MsgAuth
                   /\ auth_mark' = <<attempts, Len(sleeps)>>
                   /\ cpc' = "catch"
  /\ UNCHANGED <<transportVars, threadVars, handleVars, producerVars, uploaderVars,
                 max_retries, initial_retry_delay_ms, password, key_path, use_agent,
                 ssh_auth_sock, storagebox, attempt, retry_delay_ms, cres, attempts,
                 sleeps, probe, flagVars, opsVars, registryVars,
                 keepaliveVars, ioVars>>

\* DetectCapabilities(); connected = true; return;
Connect_DetectCapabilities ==
  /\ cpc = "probe"
  /\ \E open \in BOOLEAN, exec \in BOOLEAN, exit_status \in 0 .. 1 :
       /\ (~open => ~exec)
       /\ (~exec => exit_status = 0)
       /\ supports_commands' = DetectCapabilities(open, exec, exit_status)
       /\ probe' = [open |-> open, exec |-> exec, exit_status |-> exit_status,
                    ran |-> TRUE]
  /\ connected' = TRUE
  /\ cpc' = "done"
  /\ cres' = "connected"
  /\ UNCHANGED <<upload_mutex, g_sftp_read_mutex, sftp_pool, pool_initialized,
                 nextSftp, remote_exists, remote, wire, threadVars, handleVars,
                 producerVars, uploaderVars, max_retries, initial_retry_delay_ms,
                 password, key_path, use_agent, ssh_auth_sock, storagebox, attempt,
                 retry_delay_ms, cerr, attempts, sleeps, auth_tried, auth_mark,
                 dd_disabled, opsVars, registryVars,
                 keepaliveVars, ioVars>>

\* catch (const IOException &e)
Connect_Catch ==
  /\ cpc = "catch"
  /\ IF IsAuthError(cerr)
     THEN /\ cpc' = "done"
          /\ cres' = "auth_error"
          /\ UNCHANGED <<attempt, retry_delay_ms>>
     ELSE IF attempt >= max_retries
     THEN /\ cpc' = "done"
          /\ cres' = "connect_error"
          /\ UNCHANGED <<attempt, retry_delay_ms>>
     ELSE /\ retry_delay_ms' = retry_delay_ms * 2
          /\ attempt' = attempt + 1
          /\ cpc' = "while"
          /\ UNCHANGED cres
  /\ UNCHANGED <<transportVars, threadVars, handleVars, producerVars, uploaderVars,
                 max_retries, initial_retry_delay_ms, password, key_path, use_agent,
                 ssh_auth_sock, storagebox, cerr, attempts, sleeps, auth_tried,
                 auth_mark, probe, flagVars, opsVars, registryVars,
                 keepaliveVars, ioVars>>

\* ================================= Transport: reads and path operations

\* What a read or path operation leaves alone.
opsOthers == <<transportVars, threadVars, handleVars, producerVars, uploaderVars,
               connVars, supports_commands, registryVars, keepaliveVars, ioVars>>

\* The operations that only ever call SFTP primitives on a borrowed session.
SftpOnlyOps == {"CreateDirectorySFTP", "RemoveDirectorySFTP", "TruncateFileSFTP",
                "GetFileStats"}

\* A thread enters an operation.
O_Begin(t, op) ==
  /\ opc[t] = "idle"
  /\ calls < MaxCalls
  /\ connected
  /\ calls' = calls + 1
  /\ oop' = [oop EXCEPT ![t] = op]
  /\ dd_setter' = dd_setter \ {t}

\* ReadBytes, up to the choice between the dd command and SFTP.
ReadBytes(t) ==
  /\ O_Begin(t, "ReadBytes")
  /\ opc' = [opc EXCEPT ![t] = IF ~supports_commands \/ dd_disabled
                               THEN "rb_sftp" ELSE "rb_lock"]
  /\ opath' = [opath EXCEPT ![t] = "none"]
  /\ UNCHANGED <<opsOthers, dd_disabled, g_dd_command_mutex, exec_channels, dd_late,
                 cmd_ops>>

\* std::lock_guard<std::mutex> dd_lock(g_dd_command_mutex)
ReadBytes_Lock(t) ==
  /\ opc[t] = "rb_lock"
  /\ g_dd_command_mutex = {}
  /\ g_dd_command_mutex' = {t}
  /\ opc' = [opc EXCEPT ![t] = "rb_open"]
  /\ UNCHANGED <<opsOthers, dd_disabled, oop, opath, calls, exec_channels, dd_late,
                 dd_setter, cmd_ops>>

\* libssh2_channel_open_session for the dd command.
ReadBytes_ChannelOpen(t) ==
  /\ opc[t] = "rb_open"
  /\ exec_channels' = exec_channels + 1
  /\ dd_late' = (dd_late \/ dd_disabled)
  /\ \/ /\ opc' = [opc EXCEPT ![t] = "rb_exec"]
        /\ UNCHANGED <<dd_disabled, dd_setter>>
     \/ /\ dd_disabled' = TRUE
        /\ dd_setter' = dd_setter \cup {t}
        /\ opc' = [opc EXCEPT ![t] = "rb_sftp"]
  /\ UNCHANGED <<opsOthers, g_dd_command_mutex, oop, opath, calls, cmd_ops>>

\* libssh2_channel_exec of the dd command.
ReadBytes_Exec(t) ==
  /\ opc[t] = "rb_exec"
  /\ \/ /\ opc' = [opc EXCEPT ![t] = "rb_read"]
        /\ UNCHANGED <<dd_disabled, dd_setter>>
     \/ /\ dd_disabled' = TRUE
        /\ dd_setter' = dd_setter \cup {t}
        /\ opc' = [opc EXCEPT ![t] = "rb_sftp"]
  /\ UNCHANGED <<opsOthers, g_dd_command_mutex, oop, opath, calls, exec_channels,
                 dd_late, cmd_ops>>

\* The read loop on the channel, the exit status, and the return or throw.
ReadBytes_Read(t) ==
  /\ opc[t] = "rb_read"
  /\ opath' = [opath EXCEPT ![t] = "dd"]
  /\ g_dd_command_mutex' = g_dd_command_mutex \ {t}
  /\ opc' = [opc EXCEPT ![t] = "idle"]
  /\ UNCHANGED <<opsOthers, dd_disabled, oop, calls, exec_channels, dd_late,
                 dd_setter, cmd_ops>>

\* return ReadBytesSFTP(...), with dd_lock released when ReadBytes is left.
ReadBytes_Fallback(t) ==
  /\ opc[t] = "rb_sftp"
  /\ opath' = [opath EXCEPT ![t] = "sftp"]
  /\ g_dd_command_mutex' = g_dd_command_mutex \ {t}
  /\ opc' = [opc EXCEPT ![t] = "idle"]
  /\ UNCHANGED <<opsOthers, dd_disabled, oop, calls, exec_channels, dd_late,
                 dd_setter, cmd_ops>>

\* ExecuteCommand(command) with a remote path in the command, called by
\* operation op of thread t: it opens a command-exec channel.
ExecuteCommand(t, op) ==
  /\ opath' = [opath EXCEPT ![t] = "command"]
  /\ exec_channels' = exec_channels + 1
  /\ cmd_ops' = cmd_ops \cup {op}

\* The operation is carried out on the SFTP session it has.
ViaSftp(t) ==
  /\ opath' = [opath EXCEPT ![t] = "sftp"]
  /\ UNCHANGED <<exec_channels, cmd_ops>>

\* RemoveFile: libssh2_sftp_init, then libssh2_sftp_unlink, or ExecuteCommand("rm "
\* + remote_path) when libssh2_sftp_init failed.
RemoveFile(t) ==
  /\ O_Begin(t, "RemoveFile")
  /\ \/ ViaSftp(t)
     \/ ExecuteCommand(t, "RemoveFile")
  /\ UNCHANGED <<opsOthers, dd_disabled, g_dd_command_mutex, opc, dd_late>>

\* RenameFile: libssh2_sftp_init, then libssh2_sftp_rename_ex, or
\* ExecuteCommand("mv " + source_path + " " + target_path) when it failed.
RenameFile(t) ==
  /\ O_Begin(t, "RenameFile")
  /\ \/ ViaSftp(t)
     \/ ExecuteCommand(t, "RenameFile")
  /\ UNCHANGED <<opsOthers, dd_disabled, g_dd_command_mutex, opc, dd_late>>

\* CreateDirectorySFTP, RemoveDirectorySFTP, TruncateFileSFTP, GetFileStats.
SftpOnlyOperation(t, op) ==
  /\ O_Begin(t, op)
  /\ ViaSftp(t)
  /\ UNCHANGED <<opsOthers, dd_disabled, g_dd_command_mutex, opc, dd_late>>

\* ================================================ the registry of Transports

Keys == 1 .. NKeys             \* connection keys
Clients == 1 .. MaxClients     \* Transports, in order of construction

\* What a registry operation leaves alone.
registryOthers == <<transportVars, threadVars, handleVars, producerVars,
                    uploaderVars, connVars, flagVars, opsVars, keepaliveVars, ioVars>>

NoCall == [key |-> 0, ret |-> 0, prev |-> 0, prev_connected |-> FALSE,
           keepalive |-> FALSE, fresh |-> FALSE, prev_held |-> FALSE]

\* shared_ptr use count of Transport c: the registry entry and the references
\* held by handles and callers.
UseCount(c) == refs[c] + Cardinality({k \in Keys : client_pool[k] = c})

Destroys_Always(c) == TRUE

\* Dropping one reference to c runs ~SSHClient.
Destroys(c) == UseCount(c) = 1

ValidateConnection_Always(c, keepalive) == TRUE

\* ValidateConnection, given the result of libssh2_keepalive_send.
ValidateConnection(c, keepalive) ==
  IF ~cl_connected[c] THEN FALSE ELSE keepalive

\* std::make_shared<SSHClient>(params): the next Transport.
NewClient == CHOOSE c \in Clients : /\ cl_state[c] = "unborn"
                                    /\ \A d \in Clients : d < c => cl_state[d] # "unborn"

\* GetOrCreateClient(key), all of it under pool_mutex.  Erasing the entry drops a
\* reference, and ~SSHClient (Disconnect) runs when that was the last one.
GetOrCreateClient(k) ==
  LET prev == client_pool[k]
  IN  \E keepalive \in BOOLEAN :
        /\ prev # 0 /\ ~cl_connected[prev] => keepalive = FALSE
        /\ prev = 0 => keepalive = FALSE
        /\ IF prev # 0 /\ ValidateConnection(prev, keepalive)
           THEN /\ refs[prev] < MaxRefs
                /\ refs' = [refs EXCEPT ![prev] = @ + 1]
                /\ goc' = [key |-> k, ret |-> prev, prev |-> prev,
                           prev_connected |-> cl_connected[prev],
                           keepalive |-> keepalive,
                           fresh |-> cl_state[prev] = "unborn",
                           prev_held |-> refs[prev] > 0]
                /\ UNCHANGED <<client_pool, cl_state, cl_connected>>
           ELSE /\ \E c \in Clients : cl_state[c] = "unborn"
                /\ LET c == NewClient
                       gone == prev # 0 /\ Destroys(prev)
                   IN  /\ client_pool' = [client_pool EXCEPT ![k] = c]
                       /\ cl_state' = [d \in Clients |->
                                         IF d = c THEN "live"
                                         ELSE IF d = prev /\ gone THEN "destroyed"
                                         ELSE cl_state[d]]
                       /\ cl_connected' = [d \in Clients |->
                                             IF d = c THEN FALSE
                                             ELSE IF d = prev /\ gone THEN FALSE
                                             ELSE cl_connected[d]]
                       /\ refs' = [refs EXCEPT ![c] = 1]
                       /\ goc' = [key |-> k, ret |-> c, prev |-> prev,
                                  prev_connected |->
                                    IF prev # 0 THEN cl_connected[prev] ELSE FALSE,
                                  keepalive |-> keepalive,
                                  fresh |-> cl_state[c] = "unborn",
                                  prev_held |-> prev # 0 /\ refs[prev] > 0]
  /\ UNCHANGED registryOthers

\* A caller that obtained Transport c connects it (Connect succeeds).
Client_Connect(c) ==
  /\ cl_state[c] = "live"
  /\ refs[c] > 0
  /\ ~cl_connected[c]
  /\ cl_connected' = [cl_connected EXCEPT ![c] = TRUE]
  /\ UNCHANGED <<registryOthers, client_pool, cl_state, refs, goc>>

\* A handle is destroyed or a caller returns: its shared_ptr to c goes away.
Client_Release(c) ==
  /\ cl_state[c] = "live"
  /\ refs[c] > 0
  /\ refs' = [refs EXCEPT ![c] = @ - 1]
  /\ IF Destroys(c)
     THEN /\ cl_state' = [cl_state EXCEPT ![c] = "destroyed"]
          /\ cl_connected' = [cl_connected EXCEPT ![c] = FALSE]
     ELSE UNCHANGED <<cl_state, cl_connected>>
  /\ UNCHANGED <<registryOthers, client_pool, goc>>

\* ================================================ file handle: Read and Seek

\* What Read and Seek leave alone.
readOthers == <<transportVars, threadVars, handleVars, producerVars, uploaderVars,
                connVars, flagVars, opsVars, registryVars, keepaliveVars, mkdirVars,
                teardownVars, lifetimeVars, truncateVars>>

\* while (total_read < static_cast<size_t>(nr_bytes))
ReadMore_Once(total, n) == total = 0 /\ total < n

ReadMore(total, n) == total < n

\* size_t bytes_to_read = std::min(bytes_remaining, CHUNK_SIZE);
BytesToRead(n, total) == Min(n - total, CHUNK_SIZE)

\* The values libssh2_sftp_read can return for a request of count bytes at offset
\* of a file of size bytes: 0 at or past the end of the file, otherwise any
\* positive number of bytes up to the request and the end; -1 stands for every
\* negative error code.
libssh2_sftp_read(offset, count, size) ==
  {-1} \cup (IF offset >= size THEN {0} ELSE 1 .. Min(count, size - offset))

\* if (nr_bytes <= 0) return 0;  otherwise the call goes on to open the file.
Read(n) ==
  /\ rpc = "idle"
  /\ rd_nr_bytes' = n
  /\ rd_at' = file_position
  /\ total_read' = 0
  /\ IF n <= 0
     THEN /\ rd_ret' = 0
          /\ rd_res' = "ok"
          /\ UNCHANGED rpc
     ELSE /\ rpc' = "open"
          /\ rd_res' = "none"
          /\ UNCHANGED rd_ret
  /\ UNCHANGED <<file_position, rd_size>>
  /\ UNCHANGED readOthers

\* libssh2_sftp_open(READ), which may fail, then libssh2_sftp_seek64(handle,
\* file_position): the next libssh2_sftp_read starts at file_position.
Read_Open ==
  /\ rpc = "open"
  /\ \/ /\ rpc' = "while"
        /\ UNCHANGED rd_res
     \/ /\ rpc' = "idle"
        /\ rd_res' = "throw"
  /\ UNCHANGED <<file_position, rd_size, rd_nr_bytes, total_read, rd_ret, rd_at>>
  /\ UNCHANGED readOthers

\* One test of the loop condition and, when it holds, one libssh2_sftp_read.
Read_While ==
  /\ rpc = "while"
  /\ IF ReadMore(total_read, rd_nr_bytes)
     THEN \E nread \in libssh2_sftp_read(file_position + total_read,
                                         BytesToRead(rd_nr_bytes, total_read),
                                         rd_size) :
            IF nread < 0
            THEN /\ rpc' = "idle"
                 /\ rd_res' = "throw"
                 /\ UNCHANGED total_read
            ELSE IF nread = 0
            THEN /\ rpc' = "close"
                 /\ UNCHANGED <<total_read, rd_res>>
            ELSE /\ total_read' = total_read + nread
                 /\ UNCHANGED <<rpc, rd_res>>
     ELSE /\ rpc' = "close"
          /\ UNCHANGED <<total_read, rd_res>>
  /\ UNCHANGED <<file_position, rd_size, rd_nr_bytes, rd_ret, rd_at>>
  /\ UNCHANGED readOthers

\* file_position += total_read; return static_cast<int64_t>(total_read);
Read_Return ==
  /\ rpc = "close"
  /\ file_position' = file_position + total_read
  /\ rd_ret' = total_read
  /\ rd_res' = "ok"
  /\ rpc' = "idle"
  /\ UNCHANGED <<rd_size, rd_nr_bytes, total_read, rd_at>>
  /\ UNCHANGED readOthers

\* void Seek(idx_t location) { file_position = location; }
Seek(location) ==
  /\ rpc = "idle"
  /\ file_position' = location
  /\ rd_res' = "none"
  /\ UNCHANGED <<rd_size, rpc, rd_nr_bytes, total_read, rd_ret, rd_at>>
  /\ UNCHANGED readOthers

\* ============================================ Transport: directory creation

\* What the directory-creating loops leave alone.
mkdirOthers == <<transportVars, threadVars, handleVars, producerVars, uploaderVars,
                 connVars, flagVars, opsVars, registryVars, keepaliveVars, readVars,
                 teardownVars, lifetimeVars, truncateVars>>

Names == {"a", "b"}            \* directory and file names, one character each

\* The string of a path with the given components: "/a/b" or "a/b".
RECURSIVE PathString(_, _)
PathString(absolute, comps) ==
  IF comps = <<>> THEN <<>>
  ELSE LET n == Len(comps)
           front == PathString(absolute, SubSeq(comps, 1, n - 1))
       IN  IF n = 1
           THEN (IF absolute THEN <<"/">> ELSE <<>>) \o <<comps[1]>>
           ELSE front \o <<"/", comps[n]>>

\* std::string::npos
npos == -1

\* s.find(ch, pos): index (from 0) of the first ch at or after pos, or npos.
find(s, ch, pos) ==
  LET hits == {i \in pos .. (Len(s) - 1) : s[i + 1] = ch}
  IN  IF hits = {} THEN npos ELSE CHOOSE i \in hits : \A j \in hits : i <= j

\* s.find_last_of(ch): index (from 0) of the last ch, or npos.
find_last_of(s, ch) ==
  LET hits == {i \in 0 .. (Len(s) - 1) : s[i + 1] = ch}
  IN  IF hits = {} THEN npos ELSE CHOOSE i \in hits : \A j \in hits : i >= j

\* s.substr(pos, n) and s.substr(pos)
substr(s, pos, n) == SubSeq(s, pos + 1, Min(pos + n, Len(s)))

substr_from(s, pos) == SubSeq(s, pos + 1, Len(s))

\* What libssh2_sftp_mkdir can answer: done, the directory already exists
\* (LIBSSH2_FX_FILE_ALREADY_EXISTS), or another failure such as permission denied.
MkdirResults == {"ok", "exists", "denied"}

\* UploadChunk after BorrowSFTPSession: last_slash and dir_path.
UploadChunk_DirPath ==
  /\ mk_pc = "idle"
  /\ mk_op' = "UploadChunk"
  /\ LET last_slash == find_last_of(remote_path, "/")
         dp == IF last_slash # npos THEN substr(remote_path, 0, last_slash) ELSE <<>>
     IN  /\ dir_path' = dp
         /\ mk_pc' = IF last_slash # npos /\ dp # <<>> THEN "uc_while" ELSE "uc_open"
  /\ mk_pos' = 0
  /\ current_path' = <<>>
  /\ UNCHANGED <<dest_absolute, dest_comps, remote_path, mkdirs, mk_opened, mk_res>>
  /\ UNCHANGED mkdirOthers

\* UploadChunk, one iteration of while (pos < dir_path.length()): the value
\* libssh2_sftp_mkdir returns is not looked at.
UploadChunk_While ==
  /\ mk_pc = "uc_while"
  /\ IF mk_pos < Len(dir_path)
     THEN LET found == find(dir_path, "/", mk_pos)
              next_slash == IF found = npos THEN Len(dir_path) ELSE found
              extended == (IF current_path # <<>> THEN current_path \o <<"/">>
                           ELSE current_path)
                          \o substr(dir_path, mk_pos, next_slash - mk_pos)
          IN  /\ IF next_slash > mk_pos
                 THEN /\ current_path' = extended
                      /\ \E rc \in MkdirResults :
                           mkdirs' = Append(mkdirs, [path |-> extended, rc |-> rc])
                 ELSE UNCHANGED <<current_path, mkdirs>>
              /\ mk_pos' = next_slash + 1
              /\ UNCHANGED mk_pc
     ELSE /\ mk_pc' = "uc_open"
          /\ UNCHANGED <<current_path, mkdirs, mk_pos>>
  /\ UNCHANGED <<dest_absolute, dest_comps, remote_path, mk_op, dir_path, mk_opened,
                 mk_res>>
  /\ UNCHANGED mkdirOthers

\* UploadChunk: libssh2_sftp_open of the destination; what follows (the write
\* loop) ends the call one way or the other.
UploadChunk_OpenDestination ==
  /\ mk_pc = "uc_open"
  /\ mk_opened' = TRUE
  /\ mk_res' \in {"ok", "throw"}
  /\ mk_pc' = "done"
  /\ UNCHANGED <<dest_absolute, dest_comps, remote_path, mk_op, dir_path, mk_pos,
                 current_path, mkdirs>>
  /\ UNCHANGED mkdirOthers

\* CreateDirectorySFTP after BorrowSFTPSession: skip a leading slash.
CreateDirectorySFTP_Start ==
  /\ mk_pc = "idle"
  /\ mk_op' = "CreateDirectorySFTP"
  /\ IF remote_path # <<>> /\ remote_path[1] = "/"
     THEN mk_pos' = 1 /\ current_path' = <<"/">>
     ELSE mk_pos' = 0 /\ current_path' = <<>>
  /\ mk_pc' = "cd_while"
  /\ UNCHANGED <<dest_absolute, dest_comps, remote_path, dir_path, mkdirs, mk_opened,
                 mk_res>>
  /\ UNCHANGED mkdirOthers

\* CreateDirectorySFTP, one iteration of while (true): a mkdir failure other
\* than "already exists" returns the session and throws.
CreateDirectorySFTP_While ==
  /\ mk_pc = "cd_while"
  /\ LET pos == find(remote_path, "/", mk_pos)
         component == IF pos = npos THEN substr_from(remote_path, mk_pos)
                      ELSE substr(remote_path, mk_pos, pos - mk_pos)
         path == current_path \o component
         start == pos + 1
         leave == start >= Len(remote_path)
     IN  IF component # <<>>
         THEN \E rc \in MkdirResults :
                /\ mkdirs' = Append(mkdirs, [path |-> path, rc |-> rc])
                /\ IF rc = "denied"
                   THEN /\ mk_pc' = "done" /\ mk_res' = "throw"
                        /\ current_path' = path
                        /\ UNCHANGED mk_pos
                   ELSE IF pos = npos
                   THEN /\ mk_pc' = "done" /\ mk_res' = "ok"
                        /\ current_path' = path
                        /\ UNCHANGED mk_pos
                   ELSE /\ current_path' = path \o <<"/">>
                        /\ mk_pos' = start
                        /\ mk_pc' = IF leave THEN "done" ELSE "cd_while"
                        /\ mk_res' = IF leave THEN "ok" ELSE mk_res
         ELSE /\ mk_pos' = start
              /\ mk_pc' = IF leave THEN "done" ELSE "cd_while"
              /\ mk_res' = IF leave THEN "ok" ELSE mk_res
              /\ UNCHANGED <<current_path, mkdirs>>
  /\ UNCHANGED <<dest_absolute, dest_comps, remote_path, mk_op, dir_path, mk_opened>>
  /\ UNCHANGED mkdirOthers

\* ===================================================== Transport: teardown
\* ~SSHClient runs Disconnect when the last shared_ptr to the Transport is
\* released.  A handle holds one; the detached uploader threads it started hold
\* none (they capture the handle's this), so the Transport can be destroyed
\* while such a thread is still inside UploadChunk.

\* Disconnect(): if (!connected) return; CleanupSFTPPool(); CleanupSession();
\* connected = false.  CleanupSFTPPool shuts down the sessions that are in the
\* queue; CleanupSession disconnects and frees the SSH session.
Disconnect ==
  /\ connected
  /\ CleanupSFTPPool
  /\ session_freed' = TRUE
  /\ connected' = FALSE
  /\ UNCHANGED <<upload_mutex, g_sftp_read_mutex, nextSftp, remote_exists, remote, wire>>
  /\ UNCHANGED <<threadVars, handleVars, producerVars, uploaderVars, connVars, flagVars,
                 opsVars, registryVars, keepaliveVars, readVars, mkdirVars,
                 lifetimeVars, truncateVars>>

\* A thread that is inside an operation when the session is freed uses freed
\* memory from then on; whatever it does, its call ends in some way, with or
\* without handing its session pointer back.
T_AfterFree(t) ==
  /\ session_freed
  /\ tpc[t] \notin {"idle", "exit"}
  /\ tpc' = [tpc EXCEPT ![t] = "exit"]
  /\ tres' \in {[tres EXCEPT ![t] = "ok"], [tres EXCEPT ![t] = "throw"]}
  /\ \/ UNCHANGED <<sftp_pool, tborrowed, tret>>
     \/ /\ tborrowed[t]
        /\ ReturnSFTPSession(t)
  /\ UNCHANGED <<sessionVars, connected, upload_mutex, g_sftp_read_mutex, pool_initialized,
                 nextSftp, remote_exists, remote, wire, top, tdata, tappend, tsftp,
                 twritten, ti, handleVars, producerVars, uploaderVars>>

\* ================================================ file handle: destruction

\* What the destructor of a handle leaves alone outside the handle.
lifetimeOthers == <<transportVars, threadVars, uploaderVars, connVars, flagVars,
                    opsVars, registryVars, keepaliveVars, readVars, mkdirVars,
                    teardownVars, truncateVars>>

\* ~SSHFSFileHandle, entry: "try { Close(); }".  The handle is dropped by its
\* owner between two calls, whether or not Close was called before and however
\* the last call ended; Close then runs as in any other call.
Destructor ==
  /\ ppc = "idle"
  /\ ~in_destructor
  /\ in_destructor' = TRUE
  /\ pop' = "close"
  /\ err_at_call' = (first_upload_error # 0)
  /\ Begin(IF (write_buffer # <<>> \/ buffer_dirty)
              /\ (write_buffer # <<>> /\ buffer_dirty)
             THEN "fc_entry"
             ELSE "c_check")
  /\ UNCHANGED <<lifetimeOthers, handleVars, nr_bytes, bytes_written, fc_buffer,
                 produced, handle_destroyed>>

\* ~SSHFSFileHandle, exit: Close has returned, or has thrown and "catch (...)"
\* swallowed the exception; the members of the handle are destroyed.
Destructor_Return ==
  /\ in_destructor
  /\ ppc = "idle"
  /\ ~handle_destroyed
  /\ handle_destroyed' = TRUE
  /\ UNCHANGED <<lifetimeOthers, handleVars, producerVars, in_destructor>>

\* A handle that exists and whose destructor has not been entered.
InitLifetime ==
  /\ in_destructor = FALSE
  /\ handle_destroyed = FALSE

\* ===================================================== file system: Truncate

\* What Truncate leaves alone outside the handle and the Transport.
truncateOthers == <<threadVars, uploaderVars, connVars, flagVars, opsVars,
                    registryVars, keepaliveVars, readVars, mkdirVars, teardownVars,
                    lifetimeVars>>

\* SSHFSFileSystem::Truncate(handle, new_size), up to the call of
\* TruncateFileSFTP: the client is connected, so no Connect; then
\* sshfs_handle.Flush(), which calls FlushChunk when the buffer is non-empty
\* and dirty.
Truncate(sz) ==
  /\ CanCall
  /\ Len(sftp_pool) < MaxPool
  /\ pop' = "truncate"
  /\ tr_new_size' = sz
  /\ tr_pending' = {}
  /\ err_at_call' = (first_upload_error # 0)
  /\ Begin(IF write_buffer # <<>> /\ buffer_dirty THEN "fc_entry" ELSE "tr_sftp")
  /\ UNCHANGED <<truncateOthers, transportVars, handleVars, nr_bytes, bytes_written,
                 fc_buffer, produced>>

\* The bytes of a file after fsetstat set its size to n: cut, or extended with
\* zero bytes.
Resize(bytes, n) == [i \in 1 .. n |-> IF i <= Len(bytes) THEN bytes[i] ELSE 0]

\* client->TruncateFileSFTP(remote_path, new_size), called by Truncate once
\* Flush has returned: BorrowSFTPSession (InitializeSFTPPool on first use, which
\* may fail and throw), libssh2_sftp_open with LIBSSH2_FXF_WRITE (fails when the
\* file does not exist, and may be refused), libssh2_sftp_fsetstat, close,
\* ReturnSFTPSession; a failed open or fsetstat throws inside the try block
\* after ReturnSFTPSession, and the handler calls ReturnSFTPSession again.  The
\* session is held from the borrow to the return, so no UploadChunk of an
\* uploader falls in between: one step.
Truncate_TruncateFileSFTP ==
  /\ ppc = "tr_sftp"
  /\ LET pool == IF pool_initialized THEN sftp_pool
                 ELSE sftp_pool \o NewSessions(nextSftp)
     IN \/ /\ ~pool_initialized
           /\ CleanupSFTPPool
           /\ Finish(pop, "io_error")
           /\ UNCHANGED <<nextSftp, remote, tr_pending>>
        \/ /\ pool # <<>>
           /\ nextSftp' = IF pool_initialized THEN nextSftp ELSE nextSftp + pool_size
           /\ pool_initialized' = TRUE
           /\ \/ /\ sftp_pool' = Append(Append(Tail(pool), Head(pool)), Head(pool))
                 /\ Finish(pop, "io_error")
                 /\ UNCHANGED <<remote, tr_pending>>
              \/ /\ remote_exists
                 /\ sftp_pool' = Append(Tail(pool), Head(pool))
                 /\ remote' = Resize(remote, tr_new_size)
                 /\ tr_pending' = {p \in Parts : upc[p] = "start"}
                 /\ Finish(pop, "ok")
  /\ UNCHANGED <<truncateOthers, connected, upload_mutex, g_sftp_read_mutex,
                 remote_exists, wire, handleVars, pop, nr_bytes, bytes_written,
                 fc_buffer, produced, err_at_call, tr_new_size>>

\* No Truncate call has been made.
InitTruncate ==
  /\ tr_new_size = 0
  /\ tr_pending = {}

\* ========================================================== specifications

InitTransport ==
  /\ connected = TRUE
  /\ upload_mutex = {}
  /\ g_sftp_read_mutex = {}
  /\ sftp_pool = <<>>
  /\ pool_initialized = FALSE
  /\ nextSftp = 0
  /\ wire = <<>>

InitThreads ==
  /\ tpc = [t \in Threads |-> "idle"]
  /\ top = [t \in Threads |-> "none"]
  /\ tdata = [t \in Threads |-> <<>>]
  /\ tappend = [t \in Threads |-> FALSE]
  /\ tsftp = [t \in Threads |-> 0]
  /\ tborrowed = [t \in Threads |-> FALSE]
  /\ tret = [t \in Threads |-> 0]
  /\ twritten = [t \in Threads |-> 0]
  /\ ti = [t \in Threads |-> 0]
  /\ tres = [t \in Threads |-> "none"]

\* The handle after its constructor, the producer before its first call.
InitHandle ==
  /\ write_buffer = <<>>
  /\ buffer_dirty = FALSE
  /\ chunk_count = 0
  /\ write_buffers = <<>>
  /\ uploads_in_progress = 0
  /\ chunks_uploaded = 0
  /\ bytes_uploaded = 0
  /\ has_upload_error = FALSE
  /\ first_upload_error = 0
  /\ total_bytes_written = 0
  /\ ppc = "idle"
  /\ pop = "none"
  /\ nr_bytes = 0
  /\ bytes_written = 0
  /\ fc_buffer = NoBuffer
  /\ pres = "none"
  /\ perr = 0
  /\ produced = 0
  /\ err_at_call = FALSE
  /\ ret_inflight = 0
  /\ upc = [p \in Parts |-> "idle"]
  /\ ures = [p \in Parts |-> "none"]
  /\ first_failed = 0
  /\ decs = [p \in Parts |-> 0]
  /\ notifs = [p \in Parts |-> 0]

\* Connect has returned on a password-authenticated Transport.
InitConnected ==
  /\ max_retries = 0
  /\ initial_retry_delay_ms = 1
  /\ password = TRUE
  /\ key_path = FALSE
  /\ use_agent = FALSE
  /\ ssh_auth_sock = FALSE
  /\ cpc = "done"
  /\ attempt = 0
  /\ retry_delay_ms = 1
  /\ cerr = <<>>
  /\ cres = "connected"
  /\ attempts = 1
  /\ sleeps = <<>>
  /\ auth_tried = <<"password">>
  /\ auth_mark = <<>>
  /\ keepalive_interval = 60
  /\ session_keepalive = KeepaliveAfterHandshake(KeepaliveBeforeHandshake(keepalive_interval))

\* No thread is inside a read or path operation.
InitOps ==
  /\ g_dd_command_mutex = {}
  /\ opc = [t \in Threads |-> "idle"]
  /\ oop = [t \in Threads |-> "none"]
  /\ opath = [t \in Threads |-> "none"]
  /\ calls = 0
  /\ exec_channels = 0
  /\ dd_late = FALSE
  /\ dd_setter = {}
  /\ cmd_ops = {}

\* SSHFSFileSystem after construction: client_pool is empty.
InitRegistry ==
  /\ client_pool = [k \in Keys |-> 0]
  /\ cl_state = [c \in Clients |-> "unborn"]
  /\ cl_connected = [c \in Clients |-> FALSE]
  /\ refs = [c \in Clients |-> 0]
  /\ goc = NoCall

\* A handle before its first Read: file_position = 0.
InitReadHandle ==
  /\ file_position = 0
  /\ rpc = "idle"
  /\ rd_nr_bytes = 0
  /\ total_read = 0
  /\ rd_ret = 0
  /\ rd_res = "none"
  /\ rd_at = 0

\* No directory-creating loop has run; the path is given.
InitMkdir ==
  /\ remote_path = PathString(dest_absolute, dest_comps)
  /\ mk_op = "none"
  /\ mk_pc = "idle"
  /\ dir_path = <<>>
  /\ mk_pos = 0
  /\ current_path = <<>>
  /\ mkdirs = <<>>
  /\ mk_opened = FALSE
  /\ mk_res = "none"

\* No handle reads and no directory is created.
InitIo ==
  /\ InitReadHandle
  /\ rd_size = 0
  /\ dest_absolute = FALSE
  /\ dest_comps = <<"a">>
  /\ InitMkdir
  /\ session_freed = FALSE
  /\ InitLifetime
  /\ InitTruncate

\* A connected SFTP-only Transport outside any registry.
ConnectedTransport ==
  /\ InitConnected
  /\ storagebox = FALSE
  /\ supports_commands = FALSE
  /\ dd_disabled = FALSE
  /\ probe = [NoProbe EXCEPT !.ran = TRUE]
  /\ InitOps
  /\ InitRegistry

\* A connected SFTP-only Transport nobody reads from, outside any registry.
ConnectedSession ==
  /\ ConnectedTransport
  /\ InitIo

\* One handle opened for writing on a connected Transport, with any configured
\* chunk_size and max_concurrent_uploads; the destination may already exist.
Init ==
  /\ InitTransport
  /\ InitThreads
  /\ InitHandle
  /\ ConnectedSession
  /\ chunk_size \in 1 .. MaxChunk
  /\ max_concurrent_uploads \in 1 .. MaxW
  /\ remote_exists \in BOOLEAN
  /\ remote = IF remote_exists THEN <<0>> ELSE <<>>

Next ==
  \/ \E n \in 0 .. MaxBytes : Write(n)
  \/ Write_Loop
  \/ Flush
  \/ Close
  \/ FlushChunk_Seal
  \/ FlushChunk_Wait
  \/ Cv_Block
  \/ Cv_SpuriousWake
  \/ FlushChunk_Dispatch
  \/ Close_Check
  \/ Close_Wait
  \/ Close_CheckErrors
  \/ \E p \in Parts : Uploader_UploadChunk(p)
  \/ \E p \in Parts : Uploader_Success(p)
  \/ \E p \in Parts : Uploader_Catch(p)
  \/ \E p \in Parts : Uploader_SetFirstError(p)
  \/ \E p \in Parts : Uploader_Decrement(p)
  \/ \E p \in Parts : Uploader_Notify(p)

Spec == Init /\ [][Next]_vars

\* The steps the producer thread takes inside a call it has begun.
ProducerStep ==
  \/ Write_Loop
  \/ FlushChunk_Seal
  \/ FlushChunk_Wait
  \/ Cv_Block
  \/ FlushChunk_Dispatch
  \/ Close_Check
  \/ Close_Wait
  \/ Close_CheckErrors

\* The steps of the detached uploader thread of part p.
UploaderStep(p) ==
  \/ Uploader_UploadChunk(p)
  \/ Uploader_Success(p)
  \/ Uploader_Catch(p)
  \/ Uploader_SetFirstError(p)
  \/ Uploader_Decrement(p)
  \/ Uploader_Notify(p)

\* Scheduling: a thread that can take a step eventually takes one, and every
\* UploadChunk call returns or throws.  Nothing obliges the user to make
\* another call, and nothing obliges a condition variable to wake a waiter
\* that was not notified.
Fairness ==
  /\ WF_vars(ProducerStep)
  /\ \A p \in Parts : WF_vars(UploaderStep(p))

\* The write handle of Spec under that scheduling.
SpecLive == Init /\ [][Next]_vars /\ Fairness

\* The write handle of Spec up to and including its destruction.
NextDestroy ==
  \/ Next
  \/ Destructor
  \/ Destructor_Return

SpecDestroy == Init /\ [][NextDestroy]_vars

\* A write handle with any chunk size the settings can produce:
\* params.chunk_size = sshfs_chunk_size_mb * 1024 * 1024 for a setting of 0 or
\* more, with no lower limit.
InitAnyChunk ==
  /\ InitTransport
  /\ InitThreads
  /\ InitHandle
  /\ ConnectedSession
  /\ chunk_size \in 0 .. MaxChunk
  /\ max_concurrent_uploads \in 1 .. MaxW
  /\ remote_exists \in BOOLEAN
  /\ remote = IF remote_exists THEN <<0>> ELSE <<>>

\* Scheduling under which, in addition, a thread blocked on upload_complete_cv
\* is woken again and again, so that no wait is the reason a call does not end.
FairnessWoken ==
  /\ Fairness
  /\ WF_vars(Cv_SpuriousWake)

SpecAnyChunk == InitAnyChunk /\ [][Next]_vars /\ FairnessWoken

\* The same handle when its user writes and closes but never calls Flush itself.
NextStream ==
  \/ \E n \in 0 .. MaxBytes : Write(n)
  \/ Write_Loop
  \/ Close
  \/ FlushChunk_Seal
  \/ FlushChunk_Wait
  \/ Cv_Block
  \/ Cv_SpuriousWake
  \/ FlushChunk_Dispatch
  \/ Close_Check
  \/ Close_Wait
  \/ Close_CheckErrors
  \/ \E p \in Parts : Uploader_UploadChunk(p)
  \/ \E p \in Parts : Uploader_Success(p)
  \/ \E p \in Parts : Uploader_Catch(p)
  \/ \E p \in Parts : Uploader_SetFirstError(p)
  \/ \E p \in Parts : Uploader_Decrement(p)
  \/ \E p \in Parts : Uploader_Notify(p)

SpecStream == Init /\ [][NextStream]_vars

\* The write handle of SpecStream whose user also calls Truncate.
NextTruncate ==
  \/ NextStream
  \/ \E sz \in 0 .. MaxNewSize : Truncate(sz)
  \/ Truncate_TruncateFileSFTP

SpecTruncate == Init /\ [][NextTruncate]_vars

\* Threads calling the operations of one connected Transport directly, in any
\* interleaving; no write handle is active.
InitPool ==
  /\ InitTransport
  /\ InitThreads
  /\ InitHandle
  /\ ConnectedSession
  /\ chunk_size = MaxChunk
  /\ max_concurrent_uploads = MaxW
  /\ remote_exists \in BOOLEAN
  /\ remote = IF remote_exists THEN <<0>> ELSE <<>>

NextPool ==
  \/ \E t \in Threads, op \in BorrowingOps, append \in BOOLEAN :
       T_Call(t, op, append)
  \/ \E t \in Threads : BorrowSFTPSession(t)
  \/ \E t \in Threads : InitializeSFTPPool_Loop(t)
  \/ \E t \in Threads : BorrowSFTPSession_Wait(t)
  \/ \E t \in Threads : T_Exit(t)
  \/ \E t \in Threads : UploadChunk_Enter(t)
  \/ \E t \in Threads : UploadChunk_Open(t)
  \/ \E t \in Threads : UploadChunk_Write(t)
  \/ \E t \in Threads : GetFileStats_Enter(t)
  \/ \E t \in Threads : GetFileStats_Stat(t)
  \/ \E t \in Threads : ReadBytesSFTP_Lock(t)
  \/ \E t \in Threads : ReadBytesSFTP_Read(t)
  \/ \E t \in Threads : Read_Enter(t)
  \/ \E t \in Threads : Read_Read(t)
  \/ \E t \in Threads : CreateDirectorySFTP_Mkdir(t)
  \/ \E t \in Threads : RemoveDirectorySFTP_Rmdir(t)
  \/ \E t \in Threads : TruncateFileSFTP_Open(t)
  \/ \E t \in Threads : Catch_Return(t)

SpecPool == InitPool /\ [][NextPool]_vars

\* Threads calling the operations of a Transport that is not connected: it has
\* been disconnected, or was never connected (session = nullptr, empty pool).
InitClosed ==
  /\ connected = FALSE
  /\ upload_mutex = {}
  /\ g_sftp_read_mutex = {}
  /\ sftp_pool = <<>>
  /\ pool_initialized = FALSE
  /\ nextSftp = 0
  /\ wire = <<>>
  /\ remote_exists \in BOOLEAN
  /\ remote = IF remote_exists THEN <<0>> ELSE <<>>
  /\ InitThreads
  /\ InitHandle
  /\ chunk_size = MaxChunk
  /\ max_concurrent_uploads = MaxW
  /\ ConnectedSession

NextClosed ==
  \/ \E t \in Threads, op \in BorrowingOps \ {"Read"}, append \in BOOLEAN :
       T_Call(t, op, append)
  \/ \E t \in Threads : UploadChunk_Enter(t)
  \/ \E t \in Threads : GetFileStats_Enter(t)
  \/ \E t \in Threads : BorrowSFTPSession(t)
  \/ \E t \in Threads : InitializeSFTPPool_Loop(t)
  \/ \E t \in Threads : T_Exit(t)

SpecClosed == InitClosed /\ [][NextClosed]_vars

\* The uploader threads of a handle inside UploadChunk on a connected Transport
\* that is destroyed at some moment after the handle has released it.
NextTeardown ==
  \/ \E t \in Threads, append \in BOOLEAN : T_Call(t, "UploadChunk", append)
  \/ \E t \in Threads : UploadChunk_Enter(t)
  \/ \E t \in Threads : BorrowSFTPSession(t)
  \/ \E t \in Threads : InitializeSFTPPool_Loop(t)
  \/ \E t \in Threads : BorrowSFTPSession_Wait(t)
  \/ \E t \in Threads : UploadChunk_Open(t)
  \/ \E t \in Threads : UploadChunk_Write(t)
  \/ \E t \in Threads : T_Exit(t)
  \/ Disconnect
  \/ \E t \in Threads : T_AfterFree(t)

SpecTeardown == InitPool /\ [][NextTeardown]_vars

\* One thread calling Connect on a Transport that is not yet connected, for any
\* retry settings, credentials and server behaviour.
InitConn ==
  /\ connected = FALSE
  /\ upload_mutex = {}
  /\ g_sftp_read_mutex = {}
  /\ sftp_pool = <<>>
  /\ pool_initialized = FALSE
  /\ nextSftp = 0
  /\ wire = <<>>
  /\ remote_exists = FALSE
  /\ remote = <<>>
  /\ InitThreads
  /\ InitHandle
  /\ chunk_size = MaxChunk
  /\ max_concurrent_uploads = MaxW
  /\ max_retries \in -1 .. MaxRetries
  /\ initial_retry_delay_ms \in 1 .. MaxDelay
  /\ password \in BOOLEAN
  /\ key_path \in BOOLEAN
  /\ use_agent \in BOOLEAN
  /\ ssh_auth_sock \in BOOLEAN
  /\ storagebox \in BOOLEAN
  /\ cpc = "idle"
  /\ attempt = 0
  /\ retry_delay_ms = 0
  /\ cerr = <<>>
  /\ cres = "none"
  /\ attempts = 0
  /\ sleeps = <<>>
  /\ auth_tried = <<>>
  /\ auth_mark = <<>>
  /\ keepalive_interval \in {0, 30, 60}
  /\ session_keepalive = NoKeepalive
  /\ probe = NoProbe
  /\ supports_commands = FALSE
  /\ dd_disabled = FALSE
  /\ InitOps
  /\ InitRegistry
  /\ InitIo

NextConn ==
  \/ Connect_Call
  \/ Connect_While
  \/ Connect_Socket
  \/ InitializeSession
  \/ Connect_Authenticate
  \/ Connect_DetectCapabilities
  \/ Connect_Catch

SpecConn == InitConn /\ [][NextConn]_vars

\* Threads reading from and operating on one connected Transport, whose probe
\* found command execution supported or not.
InitTransportOps ==
  /\ InitTransport
  /\ remote_exists = TRUE
  /\ remote = <<0>>
  /\ InitThreads
  /\ InitHandle
  /\ chunk_size = MaxChunk
  /\ max_concurrent_uploads = MaxW
  /\ InitConnected
  /\ storagebox \in BOOLEAN
  /\ supports_commands \in BOOLEAN
  /\ dd_disabled = storagebox
  /\ probe = [open |-> supports_commands, exec |-> supports_commands,
              exit_status |-> 0, ran |-> TRUE]
  /\ InitOps
  /\ InitRegistry
  /\ InitIo

NextOps ==
  \/ \E t \in Threads : ReadBytes(t)
  \/ \E t \in Threads : ReadBytes_Lock(t)
  \/ \E t \in Threads : ReadBytes_ChannelOpen(t)
  \/ \E t \in Threads : ReadBytes_Exec(t)
  \/ \E t \in Threads : ReadBytes_Read(t)
  \/ \E t \in Threads : ReadBytes_Fallback(t)
  \/ \E t \in Threads : RemoveFile(t)
  \/ \E t \in Threads : RenameFile(t)
  \/ \E t \in Threads, op \in SftpOnlyOps : SftpOnlyOperation(t, op)

SpecOps == InitTransportOps /\ [][NextOps]_vars

\* Callers of the file system obtaining, connecting and releasing Transports.
InitFileSystem ==
  /\ InitTransport
  /\ remote_exists = FALSE
  /\ remote = <<>>
  /\ InitThreads
  /\ InitHandle
  /\ chunk_size = MaxChunk
  /\ max_concurrent_uploads = MaxW
  /\ ConnectedSession

NextRegistry ==
  \/ \E k \in Keys : GetOrCreateClient(k)
  \/ \E c \in Clients : Client_Connect(c)
  \/ \E c \in Clients : Client_Release(c)

SpecRegistry == InitFileSystem /\ [][NextRegistry]_vars

\* One handle opened for reading a file of any size on a connected Transport; the
\* caller seeks and reads in any order.
InitRead ==
  /\ InitTransport
  /\ remote_exists = TRUE
  /\ remote = <<>>
  /\ InitThreads
  /\ InitHandle
  /\ chunk_size = MaxChunk
  /\ max_concurrent_uploads = MaxW
  /\ ConnectedTransport
  /\ InitReadHandle
  /\ rd_size \in 0 .. MaxSize
  /\ dest_absolute = FALSE
  /\ dest_comps = <<"a">>
  /\ InitMkdir
  /\ session_freed = FALSE
  /\ InitLifetime
  /\ InitTruncate

NextRead ==
  \/ \E n \in 0 .. MaxRead : Read(n)
  \/ Read_Open
  \/ Read_While
  \/ Read_Return
  \/ \E location \in 0 .. (MaxSize + 1) : Seek(location)

SpecRead == InitRead /\ [][NextRead]_vars

\* One call of UploadChunk or CreateDirectorySFTP on a connected Transport with
\* any absolute or home-relative path of up to MaxDepth components, against a
\* server that answers each mkdir in any way.
InitPath ==
  /\ InitTransport
  /\ remote_exists = FALSE
  /\ remote = <<>>
  /\ InitThreads
  /\ InitHandle
  /\ chunk_size = MaxChunk
  /\ max_concurrent_uploads = MaxW
  /\ ConnectedTransport
  /\ InitReadHandle
  /\ rd_size = 0
  /\ dest_absolute \in BOOLEAN
  /\ dest_comps \in UNION {[1 .. n -> Names] : n \in 1 .. MaxDepth}
  /\ InitMkdir
  /\ session_freed = FALSE
  /\ InitLifetime
  /\ InitTruncate

NextMkdir ==
  \/ UploadChunk_DirPath
  \/ UploadChunk_While
  \/ UploadChunk_OpenDestination
  \/ CreateDirectorySFTP_Start
  \/ CreateDirectorySFTP_While

SpecMkdir == InitPath /\ [][NextMkdir]_vars

\* ================================================================ properties

\* C1: for one write handle the UploadChunk calls reach the server strictly in
\* increasing part-index order, whatever max_concurrent_uploads and whatever
\* the scheduling of the uploader threads.
C1_WireInPartOrder ==
  \A i \in 1 .. (Len(wire) - 1) : wire[i] < wire[i + 1]

\* C2: round trip: once close() has returned without error, the remote file
\* holds exactly the bytes handed to Write, in order.
C2_RoundTrip ==
  (ppc = "idle" /\ pop = "close" /\ pres = "ok" /\ produced > 0)
    => (remote_exists /\ remote = Bytes(0, produced))

\* C3: close() returns normally only when uploads_in_progress = 0, and then
\* chunks_uploaded = chunk_count and has_upload_error is false.
C3_CloseReturnsQuiescent ==
  (ppc = "idle" /\ pop = "close" /\ pres = "ok")
    => /\ ret_inflight = 0
       /\ uploads_in_progress = 0
       /\ chunks_uploaded = chunk_count
       /\ ~has_upload_error

\* close() has returned normally after the handle emitted every chunk it can.
C3_Witness ==
  /\ ppc = "idle" /\ pop = "close" /\ pres = "ok"
  /\ chunk_count = MaxBytes
  /\ chunks_uploaded = MaxBytes

\* C4: close() raises a captured upload error only after quiescence: when it
\* finishes by raising the captured error, uploads_in_progress is 0.
C4_CloseRaisesAfterQuiescence ==
  (ppc = "idle" /\ pop = "close" /\ pres = "upload_error") => ret_inflight = 0

\* C5: backpressure: uploads_in_progress never exceeds max_concurrent_uploads,
\* and a chunk is dispatched (uploads_in_progress incremented) only from a
\* state with uploads_in_progress < max_concurrent_uploads and the error flag
\* clear.
C5_Backpressure ==
  /\ [](uploads_in_progress <= max_concurrent_uploads)
  /\ [][uploads_in_progress' > uploads_in_progress
          => (uploads_in_progress < max_concurrent_uploads /\ ~has_upload_error)]_vars

\* The producer is blocked in FlushChunk with max_concurrent_uploads uploads in
\* flight and a sealed chunk in hand.
C5_Witness ==
  /\ ppc = "fc_blocked"
  /\ uploads_in_progress = max_concurrent_uploads
  /\ fc_buffer.data # <<>>

\* C6: idle sessions in the pool plus borrowed sessions never exceed pool_size.
C6_PoolWithinCapacity ==
  Len(sftp_pool) + Cardinality({t \in Threads : tborrowed[t]}) <= pool_size

\* C7: the pool never holds the same session twice, and a borrowed session is
\* neither in the pool nor borrowed by a second caller.
C7_SessionsDistinct ==
  /\ \A i, j \in 1 .. Len(sftp_pool) : i # j => sftp_pool[i] # sftp_pool[j]
  /\ \A t \in Threads : tborrowed[t] =>
       /\ \A i \in 1 .. Len(sftp_pool) : sftp_pool[i] # tsftp[t]
       /\ \A u \in Threads \ {t} : tborrowed[u] => tsftp[u] # tsftp[t]

\* C8: an operation that borrowed a session has returned it when it ends, on
\* the success path and on every failure path.
C8_SessionReturnedAtEnd ==
  \A t \in Threads :
    tpc[t] = "exit" => /\ ~tborrowed[t]
                       /\ tsftp[t] # 0 => tret[t] >= 1

\* An UploadChunk that borrowed a session ends by throwing (failed open,
\* write error or stalled write) while another operation ends normally.
C8_Witness ==
  \E t, u \in Threads :
    /\ tpc[t] = "exit" /\ top[t] = "UploadChunk" /\ tres[t] = "throw" /\ tsftp[t] # 0
    /\ tpc[u] = "exit" /\ top[u] # "UploadChunk" /\ tres[u] = "ok"

\* C9: the error slot holds the error of the first uploader to publish a
\* failure and is never overwritten; every uploader, failing or not,
\* decrements uploads_in_progress and notifies exactly once.
C9_FirstErrorKept ==
  /\ [](first_upload_error # 0 => first_upload_error = first_failed)
  /\ [][first_upload_error # 0 => first_upload_error' = first_upload_error]_vars
  /\ [](\A p \in Parts :
          /\ decs[p] = (IF upc[p] \in {"notify", "done"} THEN 1 ELSE 0)
          /\ notifs[p] = (IF upc[p] = "done" THEN 1 ELSE 0))
  /\ [](uploads_in_progress =
          Cardinality({p \in Parts : upc[p] \in {"start", "returned", "set_slot", "dec"}}))

\* Two uploaders of the handle have failed and finished, one after the other.
C9_Witness ==
  \E p, q \in Parts :
    /\ p # q
    /\ ures[p] = "throw" /\ upc[p] = "done"
    /\ ures[q] = "throw" /\ upc[q] = "done"
    /\ first_upload_error = ErrOf(q)

\* C10: once an uploader has published a failure (flag and slot), the very
\* next call of the producer (a write of at least one byte, flush or close)
\* raises the first error.
C10_NextCallRaises ==
  (ppc = "idle" /\ pop # "none" /\ err_at_call /\ (pop = "write" => nr_bytes > 0))
    => (pres = "upload_error" /\ perr = first_failed)

\* C11: a Connect call that has finished either left the transport connected
\* after at most max_retries + 1 attempts, or raised an authentication error, or
\* raised the connect error after exactly max_retries + 1 failed attempts.
C11_ConnectRetryBudget ==
  /\ attempts <= max_retries + 1
  /\ (cpc = "done" /\ cres # "already") =>
       \/ cres = "connected" /\ connected
       \/ cres = "auth_error" /\ ~connected
       \/ cres = "connect_error" /\ ~connected /\ attempts = max_retries + 1

\* C12: the k-th back-off sleep of a Connect call (before retry attempt k) lasts
\* initial_retry_delay_ms * 2^(k-1) milliseconds.
C12_BackoffDelays ==
  \A k \in 1 .. Len(sleeps) : sleeps[k] = initial_retry_delay_ms * 2^(k - 1)

\* C13: once an attempt has failed authentication, Connect starts no further
\* attempt and sleeps no further, raises the authentication error, and the
\* transport is not connected.
C13_AuthFailureNotRetried ==
  auth_mark # <<>> =>
    /\ cpc \in {"catch", "done"}
    /\ attempts = auth_mark[1]
    /\ Len(sleeps) = auth_mark[2]
    /\ ~connected
    /\ cpc = "done" => cres = "auth_error"

\* An authentication failure on a retry attempt, with retries still available.
C13_Witness ==
  /\ cpc = "done"
  /\ cres = "auth_error"
  /\ attempts = 2
  /\ max_retries = MaxRetries
  /\ Len(sleeps) = 1

C15_GetOrCreate ==
  /\ \A k \in Keys : client_pool[k] # 0 => cl_state[client_pool[k]] = "live"
  /\ goc.key # 0 =>
       /\ client_pool[goc.key] = goc.ret
       /\ IF goc.prev # 0 /\ goc.prev_connected /\ goc.keepalive
          THEN goc.ret = goc.prev /\ ~goc.fresh
          ELSE goc.ret # goc.prev /\ goc.fresh

\* A connected Transport failed the keepalive and was replaced.
C15_Witness ==
  /\ goc.prev # 0
  /\ goc.prev_connected
  /\ ~goc.keepalive
  /\ goc.fresh
  /\ client_pool[goc.key] = goc.ret

\* A Transport that is registered, loses its entry in this step and is
\* referenced by a handle.
EvictedHeld(c) ==
  /\ \E k \in Keys : client_pool[k] = c
  /\ \A k \in Keys : client_pool'[k] # c
  /\ refs[c] > 0

\* C16: a Transport evicted while a handle references it stays alive and keeps
\* its connection, and a referenced Transport is never destroyed.
C16_EvictionKeepsHeldTransport ==
  /\ [](\A c \in Clients : refs[c] > 0 => cl_state[c] = "live")
  /\ [][\A c \in Clients :
          EvictedHeld(c) => /\ cl_state'[c] = "live"
                            /\ cl_connected'[c] = cl_connected[c]]_vars

\* A connected Transport was evicted while referenced and is still connected.
C16_Witness ==
  /\ goc.prev # 0
  /\ goc.fresh
  /\ goc.prev_held
  /\ goc.prev_connected
  /\ refs[goc.prev] > 0
  /\ cl_connected[goc.prev]
  /\ \A k \in Keys : client_pool[k] # goc.prev

\* C17: on a connected Transport supports_commands is true exactly when the
\* probe's channel-open and exec succeeded and its exit status was zero; only
\* the probe inside Connect writes the flag, and never once connected.
C17_ProbeSetsSupportsCommands ==
  /\ [](connected =>
          /\ probe.ran
          /\ supports_commands =
               (probe.open /\ probe.exec /\ probe.exit_status = 0))
  /\ [][/\ supports_commands' # supports_commands => cpc = "probe"
        /\ connected => supports_commands' = supports_commands]_vars

\* The probe's command ran and exited non-zero; Connect was called again later.
C17_Witness ==
  /\ connected
  /\ cres = "already"
  /\ probe.open /\ probe.exec /\ probe.exit_status = 1
  /\ ~supports_commands

\* C18: no read opens a command-exec channel once dd_disabled is set, and the
\* read that set it is completed through SFTP.
C18_NoChannelAfterDisabled ==
  /\ ~dd_late
  /\ \A t \in dd_setter : opc[t] = "idle" => opath[t] = "sftp"

\* C19: on a Transport whose probe returned false no operation opens a
\* command-exec channel.
C19_NoExecChannelOnSftpOnly == ~supports_commands => exec_channels = 0

\* C20: no path-bearing operation passes its path to ExecuteCommand.
C20_PathOpsOnlySftp == cmd_ops = {}

\* C21: a Read(n) call that returns, made with the cursor at p on a file of size s,
\* returns r = min(n, max(s - p, 0)), which is never negative, and leaves the
\* cursor at p + r; a result shorter than n ends at or past the end of the file,
\* and a read begun at or past the end returns 0 and leaves the cursor where it was.
C21_ReadContract ==
  rd_res = "ok" =>
    /\ rd_ret = Min(rd_nr_bytes, IF rd_size > rd_at THEN rd_size - rd_at ELSE 0)
    /\ rd_ret >= 0
    /\ file_position = rd_at + rd_ret
    /\ (rd_ret < rd_nr_bytes => rd_at + rd_ret >= rd_size)
    /\ (rd_at >= rd_size => rd_ret = 0 /\ file_position = rd_at)

\* A read of more than one CHUNK_SIZE that began past the start of the file and
\* came back short.
C21_Witness ==
  /\ rd_res = "ok"
  /\ rd_at > 0
  /\ rd_nr_bytes > CHUNK_SIZE
  /\ 0 < rd_ret
  /\ rd_ret < rd_nr_bytes

\* C26: after a successful Connect the session's keepalive setting is "every
\* keepalive_interval seconds, without waiting for a reply" when
\* keepalive_interval > 0, and keepalive is off when keepalive_interval = 0.
C26_KeepaliveAsConfigured ==
  cres = "connected" =>
    session_keepalive =
      IF keepalive_interval > 0
      THEN [want_reply |-> FALSE, interval |-> keepalive_interval]
      ELSE [want_reply |-> FALSE, interval |-> 0]

C23_PartIndices ==
  /\ chunk_count = Len(write_buffers)
  /\ \A i \in 1 .. Len(write_buffers) : write_buffers[i].part_no = i - 1
  /\ \A i, j \in 1 .. Len(wire) : wire[i] = wire[j] => i = j
  /\ \A i \in 1 .. Len(wire) : wire[i] < chunk_count

C23_OpenModes ==
  \A p \in Parts :
    (upc[p] = "start" /\ wire' = Append(wire, p)) =>
      IF p = 0
      THEN \/ ures'[p] = "throw" /\ remote' = remote
           \/ /\ Len(remote') <= Len(BufferOf(p).data)
              /\ remote' = SubSeq(BufferOf(p).data, 1, Len(remote'))
      ELSE /\ Len(remote') >= Len(remote)
           /\ SubSeq(remote', 1, Len(remote)) = remote

C23_FirstPartTruncatesRestAppend == [] C23_PartIndices /\ [][C23_OpenModes]_vars

\* Parts 0 and 1 were both uploaded over a destination that existed before: the
\* old content is gone and part 1 follows part 0.
C23_Witness ==
  /\ Len(wire) = 2
  /\ ures[0] = "ok" /\ ures[1] = "ok"
  /\ remote = write_buffers[1].data \o write_buffers[2].data

\* The parts whose uploader has recorded a successful UploadChunk.
Succeeded == {p \in Parts : ures[p] = "ok" /\ upc[p] \in {"dec", "notify", "done"}}

\* The bytes of the first n dispatched parts that are in the set S.
RECURSIVE PartBytes(_, _)
PartBytes(n, S) ==
  IF n = 0 THEN 0
  ELSE PartBytes(n - 1, S) + (IF (n - 1) \in S THEN Len(BufferOf(n - 1).data) ELSE 0)

C25_ClosedTransportRejectsAtEntry ==
  ~connected =>
    /\ \A t \in Threads :
         tpc[t] \in {"idle", "uc_entry", "gs_entry", "borrow", "exit"}
    /\ sftp_pool = <<>> /\ ~pool_initialized

\* C27: no two threads drive the SSH session of one Transport at the same time:
\* while one thread is in the middle of the dd command of a read (its channel is
\* open on the session), no other thread carries out RemoveFile, RenameFile or
\* another operation on that session.
C27_SessionDrivenByOneThread ==
  [][(calls' = calls + 1 /\ opc' = opc) =>
       \A u \in Threads : opc[u] \notin {"rb_exec", "rb_read"}]_vars

\* C28: in UploadChunk a mkdir that fails for another reason than "already exists"
\* makes the call fail before the destination is opened (a mkdir answered
\* "already exists" does not).
C28_MkdirFailurePropagates ==
  (mk_op = "UploadChunk" /\ \E i \in 1 .. Len(mkdirs) : mkdirs[i].rc = "denied") =>
    /\ ~mk_opened
    /\ (mk_pc = "done" => mk_res = "throw")

\* C29: once the loop is over, the directories mkdir was called for are exactly the
\* successive prefixes of the parent directory of the destination (UploadChunk)
\* or of the path itself (CreateDirectorySFTP), each written in the same
\* absolute or relative form as the path passed in.
C29_MkdirTargetsArePrefixes ==
  (mk_pc \in {"uc_open", "done"} /\ \A i \in 1 .. Len(mkdirs) : mkdirs[i].rc # "denied") =>
    LET n == IF mk_op = "UploadChunk" THEN Len(dest_comps) - 1 ELSE Len(dest_comps)
    IN  /\ Len(mkdirs) = n
        /\ \A k \in 1 .. n :
             mkdirs[k].path = PathString(dest_absolute, SubSeq(dest_comps, 1, k))

\* C30: when the SSH session of a Transport has been disconnected and freed, no
\* thread holds an SFTP session borrowed from that Transport.
C30_NoBorrowAtTeardown ==
  session_freed => \A t \in Threads : ~tborrowed[t]

\* C31: the list of active write buffers of the handle holds only parts whose
\* upload has not finished yet (an uploader that has published its outcome has
\* released its buffer), so it never holds more than max_concurrent_uploads
\* buffers.
C31_ActiveBuffersOnlyUnfinished ==
  /\ Len(write_buffers) <= max_concurrent_uploads
  /\ \A i \in 1 .. Len(write_buffers) : upc[write_buffers[i].part_no] # "done"

\* The producer is inside one of the two waits on upload_complete_cv: the
\* backpressure wait of FlushChunk or the wait of Close.
Waiting == ppc \in {"fc_pred", "fc_prewait", "fc_blocked",
                    "c_pred", "c_prewait", "c_blocked"}

\* C32: when every dispatched uploader finishes, a producer inside the
\* backpressure wait of FlushChunk or inside the wait of Close eventually leaves
\* the wait and goes on.
C32_WaitersProceed == Waiting ~> ~Waiting

\* Thread t cannot go on until thread u lets go of what it holds: t is inside
\* the wait of BorrowSFTPSession on an empty pool while u holds a borrowed
\* session, or t is at a lock_guard on upload_mutex while u holds that mutex.
WaitsFor(t, u) ==
  /\ t # u
  /\ \/ tpc[t] = "pool_wait" /\ sftp_pool = <<>> /\ tborrowed[u]
     \/ tpc[t] \in {"uc_entry", "rs_lock"} /\ connected /\ u \in upload_mutex

\* C33: threads running UploadChunk, ReadBytesSFTP and GetFileStats on one
\* Transport never reach a state in which each of them waits for the lock or
\* the pool session another one holds.
C33_NoCircularWait ==
  \A t, u \in Threads : ~(WaitsFor(t, u) /\ WaitsFor(u, t))

\* C34: when the destructor of a handle has returned, no uploader thread
\* dispatched by that handle is still running: every one of them has done its
\* last access to the handle (the notify_all on upload_complete_cv).
C34_NoUploaderOutlivesHandle ==
  handle_destroyed => \A p \in Parts : upc[p] \in {"idle", "done"}

\* C35: a call of the producer that finds has_upload_error set raises the
\* captured upload error: no write, flush or close ends with the generic
\* "no exception was captured" error.
C35_NeverGenericError == pres # "generic_error"

\* C36: for every chunk size the settings can produce, a Write call of n > 0
\* bytes ends, and when it returns without raising it has accepted all n bytes.
C36_WriteTerminatesInFull ==
  /\ []((pop = "write" /\ ppc = "idle" /\ pres = "ok") => bytes_written = nr_bytes)
  /\ (pop = "write" /\ ppc # "idle") ~> (ppc = "idle")

\* C37: a Truncate call that returned normally set the size of the remote file
\* when every part dispatched before it, the part flushed by the call included,
\* had been uploaded; with no call after it, the remote file has new_size bytes
\* once the uploaders are done.
C37_TruncateAfterCommit ==
  (pop = "truncate" /\ ppc = "idle" /\ pres = "ok") =>
    /\ tr_pending = {}
    /\ (\A p \in Parts : upc[p] \in {"idle", "done"}) => Len(remote) = tr_new_size

\* C38: a GetOrCreateClient call that finds, under its key, a Transport a
\* caller holds, and that Transport is healthy (still being connected by that
\* caller, or connected and answering the keepalive), returns that Transport
\* and constructs no second one for the endpoint.
C38_OpensShareTransport ==
  (goc.key # 0 /\ goc.prev # 0 /\ goc.prev_held
     /\ (goc.prev_connected => goc.keepalive)) =>
    (goc.ret = goc.prev /\ ~goc.fresh)

====
